---- MODULE Spec2Model ----
(***************************************************************************)
(* PPG signal pipeline of the PPG-PWA repository: peak detection, feature  *)
(* extraction, the heuristic estimator and the calibration offset of the   *)
(* model tab.                                                              *)
(*                                                                         *)
(* Arrays are sequences; array INDICES are the code's 0-based indices      *)
(* (At(arr, i) reads arr[i]).  Sample values and every derived real number *)
(* are integers in micro-units (1.0 = Unit); a quotient or a square root   *)
(* is truncated to that resolution.                                        *)
(***************************************************************************)
EXTENDS Integers, Sequences, FiniteSets, TLC

VARIABLES
    data, distance, kept, pdone,       \* findPeaks: arguments, result, returned?
    ppg, outcome,                      \* extractFeatures: argument, what it returned or threw
    estIn, estOut,                     \* performMathEstimation: arguments, returned object
    mounted, session, offsets, result, \* ModelTab: mounted?, model loaded?, React state
    refs,                              \* ModelTab: refSBP, refDBP, refGlu
    stored,                            \* localStorage item 'calibration_offsets'
    inflight,                          \* runModel calls awaiting session.run
    runs,                              \* number of inferences started so far
    activeTab,                         \* Home: the one tab that is rendered
    sessions,                          \* localStorage item 'ppg_sessions', parsed
    userItem,                          \* localStorage item 'ppg_user_details' written?
    recTab,                            \* RecordingTab: React state
    flight,                            \* handleSaveAndAnalyze awaiting the model
    everSaved,                         \* history: numeric ids of all sessions ever saved
    savers,                            \* saveSession calls between read and write
    call, ret                          \* a utility function: arguments, returned value

peakVars == <<data, distance, kept, pdone>>
extractVars == <<ppg, outcome>>
estVars == <<estIn, estOut>>
tabVars == <<mounted, session, offsets, result, refs, stored, inflight, runs>>
navVars == <<activeTab>>
recVars == <<sessions, userItem, recTab, flight, everSaved>>
saveVars == <<savers>>
callVars == <<call, ret>>
vars == <<peakVars, extractVars, estVars, tabVars, navVars, recVars, saveVars, callVars>>

\* ------------------------------------------------------------------------
\* Array helpers (0-based indices, as in the source)
\* ------------------------------------------------------------------------
\* what reading an array outside 0..length-1 gives
Undefined == 1000 * 1000 * 1000 + 4

At(arr, i) == IF i \in 0..(Len(arr) - 1) THEN arr[i + 1] ELSE Undefined

Abs(x) == IF x < 0 THEN -x ELSE x

Min2(a, b) == IF a < b THEN a ELSE b

Max2(a, b) == IF a > b THEN a ELSE b

\* ------------------------------------------------------------------------
\* Numbers.  A JavaScript number is an integer count of micro-units, or one
\* of the three special values.  FMax is the largest finite magnitude (the
\* finite range of a double, scaled to what the checker's integers hold);
\* a result beyond it is an infinity, and NaN compares false with everything.
\* ------------------------------------------------------------------------
Unit == 1000 * 1000

FMax == 1000 * Unit

PosInf == FMax + 1

NegInf == -PosInf

NaN == FMax + 2

isNaN(x) == x = NaN

IsFinite(x) == -FMax <= x /\ x <= FMax

IsInf(x) == x = PosInf \/ x = NegInf

Sgn(x) == IF x = NaN THEN 0 ELSE IF x > 0 THEN 1 ELSE IF x < 0 THEN -1 ELSE 0

\* overflow to an infinity
Sat(v) == IF v > FMax THEN PosInf ELSE IF v < -FMax THEN NegInf ELSE v

\* division of integers truncated toward zero
TDiv(a, b) == IF a >= 0 THEN a \div b ELSE -((-a) \div b)

\* a + b
FAdd(a, b) ==
    IF isNaN(a) \/ isNaN(b) THEN NaN
    ELSE IF IsInf(a) /\ IsInf(b) THEN (IF a = b THEN a ELSE NaN)
    ELSE IF IsInf(a) THEN a
    ELSE IF IsInf(b) THEN b
    ELSE Sat(a + b)

FNeg(a) == IF isNaN(a) THEN NaN ELSE -a

\* a - b
FSub(a, b) == FAdd(a, FNeg(b))

\* (n/d) * x for a decimal literal n/d > 0 of the source (0.15 is 15/100)
FMulK(n, d, x) ==
    IF isNaN(x) THEN NaN
    ELSE IF IsInf(x) THEN x
    ELSE LET m == Abs(x)
             q == m \div d
             r == m % d
         IN  IF q > FMax \div n THEN Sgn(x) * PosInf
             ELSE Sgn(x) * Sat(q * n + (r * n) \div d)

\* product of two finite magnitudes, in micro-units
MagMul(a, b) ==
    LET ah == a \div Unit
        al == a % Unit
        bh == b \div Unit
        bl == b % Unit
        a1 == al \div 1000
        a0 == al % 1000
        b1 == bl \div 1000
        b0 == bl % 1000
        low == a1 * b1 + (a1 * b0 + a0 * b1) \div 1000 + (a0 * b0) \div Unit
    IN  IF ah * bh > FMax \div Unit THEN PosInf
        ELSE FAdd(FAdd(ah * bh * Unit, ah * bl), FAdd(al * bh, low))

\* a * b
FMul(a, b) ==
    IF isNaN(a) \/ isNaN(b) THEN NaN
    ELSE IF IsInf(a) \/ IsInf(b)
         THEN (IF a = 0 \/ b = 0 THEN NaN ELSE Sgn(a) * Sgn(b) * PosInf)
    ELSE Sgn(a) * Sgn(b) * MagMul(Abs(a), Abs(b))

\* k decimal digits of r / b behind the point (0 <= r < b)
RECURSIVE FracDigits(_, _, _)
FracDigits(r, b, k) ==
    IF k = 0 THEN 0
    ELSE LET t == r * 10
         IN  (t \div b) * (10 ^ (k - 1)) + FracDigits(t % b, b, k - 1)

\* quotient of two finite magnitudes (b > 0), in micro-units
RECURSIVE MagDiv(_, _)
MagDiv(a, b) ==
    IF b > 200 * Unit THEN MagDiv(a \div 10, b \div 10)
    ELSE IF a \div b > FMax \div Unit THEN PosInf
    ELSE Sat((a \div b) * Unit + FracDigits(a % b, b, 6))

\* a / b
FDiv(a, b) ==
    IF isNaN(a) \/ isNaN(b) THEN NaN
    ELSE IF IsInf(a) THEN (IF IsInf(b) THEN NaN ELSE IF b < 0 THEN -a ELSE a)
    ELSE IF IsInf(b) THEN 0
    ELSE IF b = 0 THEN (IF a = 0 THEN NaN ELSE Sgn(a) * PosInf)
    ELSE Sgn(a) * Sgn(b) * MagDiv(Abs(a), Abs(b))

\* arr.reduce((a, b) => a + b, 0) on numbers that may be special
RECURSIVE FSumFrom(_, _)
FSumFrom(arr, i) == IF i > Len(arr) THEN 0 ELSE FAdd(arr[i], FSumFrom(arr, i + 1))

FSum(arr) == FSumFrom(arr, 1)

\* a < b, a > b (false when either is NaN)
FLt(a, b) == ~isNaN(a) /\ ~isNaN(b) /\ a < b

FGt(a, b) == FLt(b, a)

\* Math.abs, Math.max, Math.min, Math.round
MathAbs(x) == IF isNaN(x) THEN NaN ELSE Abs(x)

MathMax(a, b) == IF isNaN(a) \/ isNaN(b) THEN NaN ELSE Max2(a, b)

MathMin(a, b) == IF isNaN(a) \/ isNaN(b) THEN NaN ELSE Min2(a, b)

MathRound(x) ==
    IF isNaN(x) \/ IsInf(x) THEN x
    ELSE ((x + Unit \div 2) \div Unit) * Unit

\* x || dflt
OrElse(x, dflt) == IF x = 0 \/ isNaN(x) THEN dflt ELSE x

\* Math.sqrt of a non-negative integer, rounded down
RECURSIVE SqrtFrom(_, _)
SqrtFrom(x, g) ==
    LET h == (g + x \div g) \div 2
    IN  IF h >= g THEN g ELSE SqrtFrom(x, h)

ISqrt(x) == IF x <= 0 THEN 0 ELSE SqrtFrom(x, x)

\* ------------------------------------------------------------------------
\* findPeaks (lib/signal-processing.ts, PART 6)
\* ------------------------------------------------------------------------

\* for(let i=1; i<data.length-1; i++) if(data[i] > data[i-1] && data[i] > data[i+1])
RECURSIVE CandidatesFrom(_, _)
CandidatesFrom(arr, i) ==
    IF i >= Len(arr) - 1 THEN <<>>
    ELSE IF At(arr, i) > At(arr, i - 1) /\ At(arr, i) > At(arr, i + 1)
         THEN <<i>> \o CandidatesFrom(arr, i + 1)
         ELSE CandidatesFrom(arr, i + 1)

\* Mutant: only maxima above zero are candidates.
CandidatesAboveZero(arr) == SelectSeq(CandidatesFrom(arr, 1), LAMBDA c : At(arr, c) > 0)

Candidates(arr) == CandidatesFrom(arr, 1)

\* Mutant: an equal value is placed in front (ties in reverse index order).
RECURSIVE InsertByValueDescTiesFirst(_, _, _)
InsertByValueDescTiesFirst(sorted, c, arr) ==
    IF sorted = <<>> THEN <<c>>
    ELSE IF At(arr, Head(sorted)) > At(arr, c)
         THEN <<Head(sorted)>> \o InsertByValueDescTiesFirst(Tail(sorted), c, arr)
         ELSE <<c>> \o sorted

\* One step of the stable sort by the comparator (a,b) => data[b] - data[a]:
\* c goes behind every element whose value is >= its own.
RECURSIVE InsertByValueDesc(_, _, _)
InsertByValueDesc(sorted, c, arr) ==
    IF sorted = <<>> THEN <<c>>
    ELSE IF At(arr, Head(sorted)) >= At(arr, c)
         THEN <<Head(sorted)>> \o InsertByValueDesc(Tail(sorted), c, arr)
         ELSE <<c>> \o sorted

RECURSIVE SortByValueDescFrom(_, _, _)
SortByValueDescFrom(sorted, rest, arr) ==
    IF rest = <<>> THEN sorted
    ELSE SortByValueDescFrom(InsertByValueDesc(sorted, Head(rest), arr), Tail(rest), arr)

\* candidates.sort((a,b) => data[b] - data[a])
SortByValueDesc(cands, arr) == SortByValueDescFrom(<<>>, cands, arr)

\* Mutant: the separation test is off by one.
SuppressedOffByOne(keptSoFar, c, d) ==
    \E j \in 1..Len(keptSoFar) : Abs(keptSoFar[j] - c) < d - 1

\* kept.some(k => Math.abs(k - c) < distance)
Suppressed(keptSoFar, c, d) ==
    \E j \in 1..Len(keptSoFar) : Abs(keptSoFar[j] - c) < d

\* for(const c of candidates) if(!kept.some(...)) kept.push(c)
RECURSIVE Greedy(_, _, _)
Greedy(keptSoFar, rest, d) ==
    IF rest = <<>> THEN keptSoFar
    ELSE IF Suppressed(keptSoFar, Head(rest), d)
         THEN Greedy(keptSoFar, Tail(rest), d)
         ELSE Greedy(Append(keptSoFar, Head(rest)), Tail(rest), d)

RECURSIVE InsertAsc(_, _)
InsertAsc(sorted, c) ==
    IF sorted = <<>> THEN <<c>>
    ELSE IF Head(sorted) <= c
         THEN <<Head(sorted)>> \o InsertAsc(Tail(sorted), c)
         ELSE <<c>> \o sorted

RECURSIVE SortAscFrom(_, _)
SortAscFrom(sorted, rest) ==
    IF rest = <<>> THEN sorted
    ELSE SortAscFrom(InsertAsc(sorted, Head(rest)), Tail(rest))

\* kept.sort((a,b) => a - b)
SortAsc(s) == SortAscFrom(<<>>, s)

\* Mutant: the final sort by position is missing.
findPeaksUnsorted(arr, d) == Greedy(<<>>, SortByValueDesc(Candidates(arr), arr), d)

findPeaks(arr, d) == SortAsc(Greedy(<<>>, SortByValueDesc(Candidates(arr), arr), d))

\* every sequence over S of length n, of length up to n
RECURSIVE SeqsOfLen(_, _)
SeqsOfLen(S, n) ==
    IF n = 0 THEN {<<>>}
    ELSE {Append(s, v) : s \in SeqsOfLen(S, n - 1), v \in S}

SeqsUpTo(S, n) == UNION {SeqsOfLen(S, k) : k \in 0..n}

RECURSIVE SetToSeq(_)
SetToSeq(S) ==
    IF S = {} THEN <<>>
    ELSE LET x == CHOOSE y \in S : TRUE IN <<x>> \o SetToSeq(S \ {x})

\* ------------------------------------------------------------------------
\* Math helpers (lib/signal-processing.ts, PART 2)
\* ------------------------------------------------------------------------
FS == 30

\* sum of arr[lo..hi], by halves
RECURSIVE SumRange(_, _, _)
SumRange(arr, lo, hi) ==
    IF lo > hi THEN 0
    ELSE IF lo = hi THEN arr[lo]
    ELSE LET mid == (lo + hi) \div 2
         IN  SumRange(arr, lo, mid) + SumRange(arr, mid + 1, hi)

Sum(arr) == SumRange(arr, 1, Len(arr))

\* arr.length ? arr.reduce((a, b) => a + b, 0) / arr.length : 0
_mean(arr) == IF Len(arr) = 0 THEN 0 ELSE TDiv(Sum(arr), Len(arr))

\* Math.min(...arr), Math.max(...arr)
_min(arr) ==
    IF Len(arr) = 0 THEN 0
    ELSE CHOOSE v \in {arr[i] : i \in 1..Len(arr)} : \A i \in 1..Len(arr) : v <= arr[i]

_max(arr) ==
    IF Len(arr) = 0 THEN 0
    ELSE CHOOSE v \in {arr[i] : i \in 1..Len(arr)} : \A i \in 1..Len(arr) : v >= arr[i]

\* power of ten that brings a deviation into the range whose squares can be summed
RECURSIVE ScaleFor(_)
ScaleFor(mx) == IF mx <= 5000 THEN 1 ELSE 10 * ScaleFor(mx \div 10)

\* Mutant: the mean is not subtracted.
_stdNoMean(arr) ==
    IF Len(arr) <= 1 THEN 0
    ELSE LET dev == [i \in 1..Len(arr) |-> Abs(arr[i])]
             s == ScaleFor(_max(dev))
             sq == [i \in 1..Len(arr) |-> (dev[i] \div s) * (dev[i] \div s)]
         IN  ISqrt(Sum(sq) \div Len(arr)) * s

\* Math.sqrt(arr.reduce((a, b) => a + Math.pow(b - m, 2), 0) / arr.length)
_std(arr) ==
    IF Len(arr) <= 1 THEN 0
    ELSE LET m == _mean(arr)
             dev == [i \in 1..Len(arr) |-> Abs(arr[i] - m)]
             s == ScaleFor(_max(dev))
             sq == [i \in 1..Len(arr) |-> (dev[i] \div s) * (dev[i] \div s)]
         IN  ISqrt(Sum(sq) \div Len(arr)) * s

gradient(arr) ==
    LET n == Len(arr)
    IN  IF n < 2 THEN [i \in 1..n |-> 0]
        ELSE [i \in 1..n |->
                 IF i = 1 THEN arr[2] - arr[1]
                 ELSE IF i = n THEN arr[n] - arr[n - 1]
                 ELSE TDiv(arr[i + 1] - arr[i - 1], 2)]

\* sum += 0.5 * (y[i] + y[i+1]) for i = 0 .. length-2
trapz(y) == Sum([i \in 1..(Len(y) - 1) |-> TDiv(y[i] + y[i + 1], 2)])

\* ------------------------------------------------------------------------
\* gaussianFilter1d (PART 6).  Math.exp(-(i*i)/(2*sigma*sigma)) is tabulated
\* to six decimals for sigma 1 and the two sigmas the program uses; for
\* sigma 0 it is Math.exp(-0/0), not-a-number; for a negative sigma the
\* loop from -radius to radius has no pass and the kernel is empty.
\* ------------------------------------------------------------------------
ExpTab1 == <<1000000, 606531, 135335, 11109, 335>>

ExpTab2 == <<1000000, 882497, 606531, 324652, 135335, 43937, 11109, 2187, 335>>

ExpTab5 == <<1000000, 980199, 923116, 835270, 726149, 606531, 486752, 375311,
             278037, 197899, 135335, 88922, 56135, 34047, 19841, 11109, 5976,
             3089, 1534, 732, 335>>

\* power of ten that brings a sample into the range a weighted sum can hold
RECURSIVE KernelScale(_)
KernelScale(mx) == IF mx <= 2000 THEN 1 ELSE 10 * KernelScale(mx \div 10)

\* a / b for b > 0, rounded to the nearest integer
RoundDiv(a, b) ==
    LET q == a \div b
        r == a % b
    IN  IF 2 * r >= b THEN q + 1 ELSE q

GaussExp(i, sigma) ==
    IF sigma = 0 THEN NaN
    ELSE IF sigma = 1 THEN ExpTab1[Abs(i) + 1]
    ELSE IF sigma = 2 THEN ExpTab2[Abs(i) + 1]
    ELSE ExpTab5[Abs(i) + 1]

\* Mutant: a tap beyond either end reads zero instead of the nearest sample.
gaussianFilter1dZeroPadded(arr, sigma) ==
    LET radius == 4 * sigma
        kernel == [j \in 1..(2 * radius + 1) |-> GaussExp(j - 1 - radius, sigma)]
        ksum == Sum(kernel)
        normKernel == [j \in 1..(2 * radius + 1) |-> FDiv(kernel[j], ksum)]
        inside(i, j) == 0 <= i + (j - radius) /\ i + (j - radius) <= Len(arr) - 1
        s == KernelScale(_max([i \in 1..Len(arr) |-> Abs(arr[i])]))
        tap(i, j) == IF inside(i, j)
                     THEN TDiv(At(arr, i + (j - radius)), s) * At(normKernel, j) ELSE 0
        taps(i) == [j \in 1..(2 * radius + 1) |-> tap(i, j - 1)]
    IN  [i \in 1..Len(arr) |->
            IF \E j \in 1..Len(normKernel) : isNaN(normKernel[j]) THEN NaN
            ELSE RoundDiv(Sum(taps(i - 1)), Unit) * s]

gaussianFilter1d(arr, sigma) ==
    LET radius == 4 * sigma
        kernel == [j \in 1..(2 * radius + 1) |-> GaussExp(j - 1 - radius, sigma)]
        ksum == Sum(kernel)
        normKernel == [j \in 1..(2 * radius + 1) |-> FDiv(kernel[j], ksum)]
        idx(i, j) == Min2(Max2(i + (j - radius), 0), Len(arr) - 1)
        s == KernelScale(_max([i \in 1..Len(arr) |-> Abs(arr[i])]))
        tap(i, j) == TDiv(At(arr, idx(i, j)), s) * At(normKernel, j)
        taps(i) == [j \in 1..(2 * radius + 1) |-> tap(i, j - 1)]
    IN  [i \in 1..Len(arr) |->
            IF \E j \in 1..Len(normKernel) : isNaN(normKernel[j]) THEN NaN
            ELSE RoundDiv(Sum(taps(i - 1)), Unit) * s]

\* ------------------------------------------------------------------------
\* lfilter, filtfilt (PART 6) and preprocessPPG (PART 3).  The filter works
\* on samples carried to four decimals and sums its taps exactly.  The
\* numbers of the model end at FMax: a sample beyond it is beyond every
\* finite number, so Math.abs(y[n]) > 1e9 holds for it.
\* ------------------------------------------------------------------------
TRIM_SEC == 3

\* b in millionths, a in ten-thousandths
BandB == <<32623, 0, -130493, 0, 195740, 0, -130493, 0, 32623>>

BandA == <<10000, -48465, 106666, -141672, 120620, -66582, 23387, -4746, 433>>

FilterUnit == Unit \div 10000

FilterMax == FMax \div FilterUnit

\* b[i] * v
MulB(bn, v) ==
    LET m == Abs(v)
    IN  Sgn(bn) * Sgn(v) * ((Abs(bn) * (m \div 1000)) \div 1000 + (Abs(bn) * (m % 1000)) \div Unit)

\* a[j] * v
MulA(an, v) ==
    LET m == Abs(v)
    IN  Sgn(an) * Sgn(v) * (Abs(an) * (m \div 10000) + (Abs(an) * (m % 10000)) \div 10000)

\* const safe = (v) => isNaN(v) ? 0 : v
safe(v) == IF isNaN(v) THEN 0 ELSE v

\* one pass of the loop over n, for n = Len(y)
lfilterStep(b, a, x, y) ==
    LET n == Len(y)
        fir == Sum([i \in 1..Len(b) |->
                       IF n - (i - 1) >= 0 THEN MulB(At(b, i - 1), safe(At(x, n - (i - 1)))) ELSE 0])
        iir == Sum([j \in 1..(Len(a) - 1) |->
                       IF n - j >= 0 THEN MulA(At(a, j), safe(At(y, n - j))) ELSE 0])
        yn == TDiv(fir - iir, At(a, 0) \div 10000)
    IN  Append(y, IF Abs(yn) > FilterMax THEN 0 ELSE yn)

\* k passes of the loop
RECURSIVE lfilterSteps(_, _, _, _, _)
lfilterSteps(b, a, x, y, k) ==
    IF k = 0 THEN y
    ELSE IF k = 1 THEN lfilterStep(b, a, x, y)
    ELSE CHOOSE r \in {lfilterSteps(b, a, x, half, k - k \div 2) :
                           half \in {lfilterSteps(b, a, x, y, k \div 2)}} : TRUE

lfilter(b, a, x) == lfilterSteps(b, a, x, <<>>, Len(x))

Reverse(arr) == [i \in 1..Len(arr) |-> arr[Len(arr) + 1 - i]]

filtfilt(b, a, x) ==
    LET forward == lfilter(b, a, x)
        backward == lfilter(b, a, Reverse(forward))
    IN  Reverse(backward)

\* raw.some(isNaN)
HasNaN(raw) == \E i \in 1..Len(raw) : isNaN(raw[i])

\* raw.map(v => isNaN(v) ? 0 : v)
Sanitized(raw) == [i \in 1..Len(raw) |-> IF isNaN(raw[i]) THEN 0 ELSE raw[i]]

trimSamples == TRIM_SEC * FS

\* Mutant: a signal is trimmed as soon as it is longer than the two cuts.
TrimOverTwice(signal) ==
    IF Len(signal) > 2 * trimSamples
    THEN SubSeq(signal, trimSamples + 1, Len(signal) - trimSamples)
    ELSE signal

\* Mutant: a signal of exactly 2.5 * trimSamples samples is trimmed too.
TrimFromEqual(signal) ==
    IF 2 * Len(signal) >= 5 * trimSamples
    THEN SubSeq(signal, trimSamples + 1, Len(signal) - trimSamples)
    ELSE signal

\* if (signal.length > 2.5 * trimSamples) signal = signal.slice(...)
Trim(signal) ==
    IF 2 * Len(signal) > 5 * trimSamples
    THEN SubSeq(signal, trimSamples + 1, Len(signal) - trimSamples)
    ELSE signal

\* the steps after the NaN check
Filtered(raw) ==
    LET x == [i \in 1..Len(raw) |-> TDiv(raw[i], FilterUnit)]
        out == filtfilt(BandB, BandA, x)
        signal == [i \in 1..Len(out) |-> out[i] * FilterUnit]
        maxVal == _max([i \in 1..Len(signal) |-> MathAbs(signal[i])])
        checked == IF isNaN(maxVal) \/ maxVal > FMax THEN raw ELSE signal
    IN  Trim(gaussianFilter1d(checked, 2))

\* Mutant: the sanitized sequence is trimmed like a filtered one.
preprocessPPGSanitizedTrimmed(raw) ==
    IF raw.null \/ Len(raw.arr) = 0 THEN <<>>
    ELSE IF HasNaN(raw.arr) THEN Trim(Sanitized(raw.arr))
    ELSE Filtered(raw.arr)

\* raw is the argument: null when missing
preprocessPPG(raw) ==
    IF raw.null \/ Len(raw.arr) = 0 THEN <<>>
    ELSE IF HasNaN(raw.arr) THEN Sanitized(raw.arr)
    ELSE Filtered(raw.arr)

\* ------------------------------------------------------------------------
\* getWelchLF (PART 2).  Math.cos and Math.sin of a fraction num/den of a
\* turn are the rational approximation (1 - 16 t^2) / (1 + 4 t^2), |t| <= 1/4.
\* ------------------------------------------------------------------------
CosQuarter(num, den) ==
    TDiv((den * den - 16 * num * num) * 1000, den * den + 4 * num * num) * 1000

\* the same with t = m / (2 den)
CosHalf(m, den) ==
    TDiv((den * den - 4 * m * m) * 1000, den * den + m * m) * 1000

\* cos(2 pi num / den), num >= 0
CosTurn(num, den) ==
    LET r == num % den
    IN  IF 4 * r <= den THEN CosQuarter(r, den)
        ELSE IF 4 * r < 3 * den THEN -CosHalf(Abs(2 * r - den), den)
        ELSE CosQuarter(den - r, den)

\* sin(2 pi num / den) = cos(2 pi (num/den - 1/4)), num >= 0
SinTurn(num, den) == CosTurn(4 * num + 3 * den, 4 * den)

\* 0.5 * (1 - Math.cos((2 * Math.PI * i) / (nperseg - 1)))
Hann(i, nperseg) == TDiv(Unit - CosTurn(i, nperseg - 1), 2)

\* Mutant: the band starts at 0 Hz.
LFBinsFromZero(nperseg, fs) ==
    {k \in 0..(nperseg \div 2) :
        nperseg > 0 /\ 100 * k * fs >= 0 /\ 100 * k * fs <= 15 * nperseg}

\* bins k with 0.01 <= k * (fs / nperseg) <= 0.15; with nperseg = 0 the
\* frequency 0 * (fs / 0) is NaN and no bin passes
LFBins(nperseg, fs) ==
    {k \in 0..(nperseg \div 2) :
        nperseg > 0 /\ 100 * k * fs >= nperseg /\ 100 * k * fs <= 15 * nperseg}

\* avgPSD[k] after the doubling of the inner bins
avgPSD(signal, fs, bin) ==
    LET nperseg == Min2(256, Len(signal))
        step == nperseg \div 2
        nWindows == (Len(signal) - nperseg) \div step + 1
        window == [i \in 1..nperseg |-> Hann(i - 1, nperseg)]
        wVal(w, n) == FMul(At(signal, w * step + n), At(window, n))
        re(w, k) == Sum([n \in 1..nperseg |-> FMul(wVal(w, n - 1), CosTurn(k * (n - 1), nperseg))])
        im(w, k) == Sum([n \in 1..nperseg |-> -FMul(wVal(w, n - 1), SinTurn(k * (n - 1), nperseg))])
        spectrum(w, k) == FAdd(FMul(re(w, k), re(w, k)), FMul(im(w, k), im(w, k)))
        psdAccumulator(k) == FSum([w \in 1..nWindows |-> spectrum(w - 1, k)])
        winSumSq == Sum([i \in 1..nperseg |-> FMul(window[i], window[i])])
        \* (v / nWindows) * scale with scale = 1.0 / (fs * winSumSq || 1),
        \* as two divisions: fs * winSumSq is beyond FMax for long windows
        scaled(x) ==
            IF winSumSq = 0 \/ isNaN(winSumSq) THEN x
            ELSE FDiv(FDiv(x, winSumSq), fs * Unit)
        v == scaled(FDiv(psdAccumulator(bin), nWindows * Unit))
    IN  IF 1 <= bin /\ bin < nperseg \div 2 THEN FMulK(2, 1, v) ELSE v

getWelchLF(signal, fs) ==
    LET nperseg == Min2(256, Len(signal))
        step == nperseg \div 2
        nWindows == (Len(signal) - nperseg) \div step + 1
        bins == LFBins(nperseg, fs)
        binSeq == SortAsc(SetToSeq(bins))
    IN  IF nperseg < 32 THEN 0
        ELSE IF nWindows < 1 THEN 0
        ELSE FSum([j \in 1..Len(binSeq) |-> avgPSD(signal, fs, binSeq[j])])

\* ------------------------------------------------------------------------
\* extractFeatures (lib/signal-processing.ts, PART 3).  The argument is
\* [null |-> is it missing, arr |-> the samples]; the result is what was
\* thrown (kind = the Error's message) or returned (kind = "ok", vec).
\* ------------------------------------------------------------------------
MinSamples == 30

FlatStd == 100

PeakDistance == 10

SdppgDistance == 8

Landmarks == 5

eps == 1

Throw(msg) == [kind |-> msg, vec |-> <<>>]

Return(v) == [kind |-> "ok", vec |-> v]

Pending == [kind |-> "pending", vec |-> <<>>]

Negate(arr) == [i \in 1..Len(arr) |-> -arr[i]]

\* Safe Access Utils
safeP(sig, peaks, idx) == At(sig, At(peaks, Min2(idx, Len(peaks) - 1)))

safeV(sig, valleys, idx) == At(sig, At(valleys, Min2(idx, Len(valleys) - 1)))

\* Mutant: the accessor reads position idx itself.
safePiUnclamped(peaks, idx) == At(peaks, idx)

safePi(peaks, idx) == At(peaks, Min2(idx, Len(peaks) - 1))

safeVi(valleys, idx) == At(valleys, Min2(idx, Len(valleys) - 1))

\* _mean(peaks.map(i => ppg[i]))
PeakVal(sig, peaks) == _mean([j \in 1..Len(peaks) |-> At(sig, peaks[j])])

RI(sig, peaks, valleys) == FDiv(safeV(sig, valleys, 0), PeakVal(sig, peaks) + eps)

AIx(sig, peaks) == FDiv(_max(sig) - _min(sig), PeakVal(sig, peaks) + eps)

sys_slope(sig, peaks, valleys) ==
    FDiv(safeP(sig, peaks, 0) - safeV(sig, valleys, 0),
         Abs(safePi(peaks, 0) - safeVi(valleys, 0)) * Unit + eps)

dia_slope(sig, peaks, valleys) ==
    FDiv(safeP(sig, peaks, 1) - safeV(sig, valleys, 0),
         Abs(safePi(peaks, 1) - safeVi(valleys, 0)) * Unit + eps)

\* ppg.filter(v => v > (n/d) * peak_val).length / FS
PulseWidth(sig, peaks, n, d) ==
    FDiv(Cardinality({i \in 1..Len(sig) : sig[i] > FMulK(n, d, PeakVal(sig, peaks))}) * Unit,
         FS * Unit)

\* peaks.length * (60 / (ppg.length / FS))
HR(sig, peaks) ==
    FMul(Len(peaks) * Unit, FDiv(60 * Unit, FDiv(Len(sig) * Unit, FS * Unit)))

RR_intervals(peaks) ==
    [j \in 1..(Len(peaks) - 1) |-> FDiv((peaks[j + 1] - peaks[j]) * Unit, FS * Unit)]

HRV(peaks) == IF Len(RR_intervals(peaks)) > 0 THEN _std(RR_intervals(peaks)) ELSE 0

\* d2.map(x => (x - meanD2) / (stdD2 + eps))
d2_norm(sig) ==
    LET d2 == gradient(gradient(sig))
        meanD2 == _mean(d2)
        stdD2 == _std(d2)
    IN  [i \in 1..Len(d2) |-> FDiv(d2[i] - meanD2, stdD2 + eps)]

\* [BA, CA, DA, EA, STIFF]
Sdppg(sig) ==
    LET dn == d2_norm(sig)
        sp == findPeaks(dn, SdppgDistance)
    IN  IF Len(sp) >= Landmarks
        THEN LET a == At(dn, sp[1])
                 b == At(dn, sp[2])
                 c == At(dn, sp[3])
                 d == At(dn, sp[4])
                 e == At(dn, sp[5])
             IN  <<FDiv(b, FAdd(a, eps)), FDiv(c, FAdd(a, eps)), FDiv(d, FAdd(a, eps)),
                   FDiv(e, FAdd(a, eps)), MathAbs(FSub(a, b))>>
        ELSE <<0, 0, 0, 0, 0>>

baseline_trend(sig) == _mean(gradient(gaussianFilter1d(sig, 5)))

\* Mutant: the spectral feature is not appended.
FeatureVectorShort(sig, peaks, valleys) ==
    <<RI(sig, peaks, valleys), AIx(sig, peaks),
      sys_slope(sig, peaks, valleys), dia_slope(sig, peaks, valleys),
      PulseWidth(sig, peaks, 1, 2), PulseWidth(sig, peaks, 3, 4),
      HR(sig, peaks), HRV(peaks), trapz(sig)>>
    \o Sdppg(sig)
    \o <<_mean(sig), _std(sig), baseline_trend(sig)>>

\* return [RI, AIx, sys_slope, dia_slope, PW50, PW75, HR, HRV, AUC,
\*         BA, CA, DA, EA, STIFF, mean_ppg, std_ppg, baseline_trend, LF]
FeatureVector(sig, peaks, valleys) ==
    <<RI(sig, peaks, valleys), AIx(sig, peaks),
      sys_slope(sig, peaks, valleys), dia_slope(sig, peaks, valleys),
      PulseWidth(sig, peaks, 1, 2), PulseWidth(sig, peaks, 3, 4),
      HR(sig, peaks), HRV(peaks), trapz(sig)>>
    \o Sdppg(sig)
    \o <<_mean(sig), _std(sig), baseline_trend(sig), getWelchLF(sig, FS)>>

\* Mutant: the flatline check comes before the length check.
extractFeaturesFlatFirst(arg) ==
    IF ~arg.null /\ _std(arg.arr) < FlatStd THEN Throw("Signal flatline")
    ELSE IF arg.null \/ Len(arg.arr) < MinSamples THEN Throw("Signal too short")
    ELSE LET peaks == findPeaks(arg.arr, PeakDistance)
             valleys == findPeaks(Negate(arg.arr), PeakDistance)
         IN  IF Len(peaks) < 2 THEN Throw("Not enough peaks")
             ELSE IF Len(valleys) < 1 THEN Throw("No valleys found")
             ELSE Return(FeatureVector(arg.arr, peaks, valleys))

\* Mutant: the valley check comes before the peak check.
extractFeaturesValleysFirst(arg) ==
    IF arg.null \/ Len(arg.arr) < MinSamples THEN Throw("Signal too short")
    ELSE IF _std(arg.arr) < FlatStd THEN Throw("Signal flatline")
    ELSE LET peaks == findPeaks(arg.arr, PeakDistance)
             valleys == findPeaks(Negate(arg.arr), PeakDistance)
         IN  IF Len(valleys) < 1 THEN Throw("No valleys found")
             ELSE IF Len(peaks) < 2 THEN Throw("Not enough peaks")
             ELSE Return(FeatureVector(arg.arr, peaks, valleys))

\* if (!ppg || ppg.length < 30) throw: the first check of extractFeatures
TooShort(arg) == arg.null \/ Len(arg.arr) < MinSamples

\* Mutant: a single peak passes the peak check.
extractFeaturesOnePeak(arg) ==
    IF arg.null \/ Len(arg.arr) < MinSamples THEN Throw("Signal too short")
    ELSE IF _std(arg.arr) < FlatStd THEN Throw("Signal flatline")
    ELSE LET peaks == findPeaks(arg.arr, PeakDistance)
             valleys == findPeaks(Negate(arg.arr), PeakDistance)
         IN  IF Len(peaks) < 1 THEN Throw("Not enough peaks")
             ELSE IF Len(valleys) < 1 THEN Throw("No valleys found")
             ELSE Return(FeatureVector(arg.arr, peaks, valleys))

extractFeatures(arg) ==
    IF TooShort(arg) THEN Throw("Signal too short")
    ELSE IF _std(arg.arr) < FlatStd THEN Throw("Signal flatline")
    ELSE LET peaks == findPeaks(arg.arr, PeakDistance)
             valleys == findPeaks(Negate(arg.arr), PeakDistance)
         IN  IF Len(peaks) < 2 THEN Throw("Not enough peaks")
             ELSE IF Len(valleys) < 1 THEN Throw("No valleys found")
             ELSE Return(FeatureVector(arg.arr, peaks, valleys))

\* ------------------------------------------------------------------------
\* performMathEstimation
\* ------------------------------------------------------------------------
\* the decimal literal n/d
Dec(n, d) == (n * Unit) \div d

\* 105 + (0.5 * age) + (0.5 * bmi) + (0.2 * HR) - (20 * RI)
est_sbp(age, bmi, hr, ri) ==
    FSub(FAdd(FAdd(FAdd(105 * Unit, FMulK(5, 10, age)), FMulK(5, 10, bmi)),
              FMulK(2, 10, hr)),
         FMulK(20, 1, ri))

\* 65 + (0.2 * age) + (0.3 * bmi) + (0.15 * HR) - (10 * RI) + (10 * AIx)
est_dbp(age, bmi, hr, ri, aix) ==
    FAdd(FSub(FAdd(FAdd(FAdd(65 * Unit, FMulK(2, 10, age)), FMulK(3, 10, bmi)),
                   FMulK(15, 100, hr)),
              FMulK(10, 1, ri)),
         FMulK(10, 1, aix))

\* 85 + (0.8 * bmi) + (0.2 * age) + (100 * STIFF) - (0.5 * HR)
est_glu(age, bmi, hr, stiff) ==
    FSub(FAdd(FAdd(FAdd(85 * Unit, FMulK(8, 10, bmi)), FMulK(2, 10, age)),
              FMulK(100, 1, stiff)),
         FMulK(5, 10, hr))

\* Math.min(Math.max(x, lo), hi)
Clamp(x, lo, hi) == MathMin(MathMax(x, lo), hi)

\* the returned object, from the four features, bmi and age
Estimate(age, bmi, hr, ri, aix, stiff) ==
    [sbp |-> MathRound(Clamp(est_sbp(age, bmi, hr, ri), 90 * Unit, 180 * Unit)),
     dbp |-> MathRound(Clamp(est_dbp(age, bmi, hr, ri, aix), 60 * Unit, 120 * Unit)),
     glucose |-> MathRound(Clamp(est_glu(age, bmi, hr, stiff), 70 * Unit, 250 * Unit))]

performMathEstimation(features, age, height, weight) ==
    LET ri == OrElse(At(features, 0), Dec(3, 10))
        aix == OrElse(At(features, 1), -Dec(5, 10))
        hr == OrElse(At(features, 6), 75 * Unit)
        stiff == OrElse(At(features, 13), Dec(1, 10))
        h_m == FDiv(height, 100 * Unit)
        bmi == FDiv(weight, OrElse(FMul(h_m, h_m), Unit))
    IN  Estimate(age, bmi, hr, ri, aix, stiff)

\* ------------------------------------------------------------------------
\* ModelTab: calibration offsets
\* ------------------------------------------------------------------------
Channels == {"sbp", "dbp", "glu"}

\* useState({ sbp: 0, dbp: 0, glu: 0 })
ZeroOffsets == [c \in Channels |-> 0]

\* useState(120), useState(80), useState(100)
DefaultRefs == [sbp |-> 120 * Unit, dbp |-> 80 * Unit, glu |-> 100 * Unit]

\* what JSON.stringify followed by JSON.parse makes of a number: a
\* non-finite number is written as null
Null == FMax + 3

JSONNumber(x) == IF IsFinite(x) THEN x ELSE Null

JSONRoundTrip(o) == [c \in Channels |-> JSONNumber(o[c])]

\* a + b where b may be null (null converts to 0)
Plus(a, b) == FAdd(a, IF b = Null THEN 0 ELSE b)

NoItem == [present |-> FALSE, val |-> ZeroOffsets]

\* req is the number of the runModel call that set the result
NoResult == [has |-> FALSE, raw |-> ZeroOffsets, pred |-> ZeroOffsets, req |-> 0]

\* final.pred, final.raw of runModel, from the output tensor and the
\* offsets of the render whose runModel was called
FinalResult(outputData, capturedOffsets) ==
    [has |-> TRUE,
     raw |-> outputData,
     pred |-> [c \in Channels |-> Plus(outputData[c], capturedOffsets[c])]]

\* newOffsets of calibrate
NewOffsets(r, res) == [c \in Channels |-> FSub(r[c], res.raw[c])]

\* ------------------------------------------------------------------------
\* SignalStorage.  A string is a sequence of one-character strings; the
\* item 'ppg_sessions' is held parsed, as the sequence of its sessions (the
\* absent item and the empty list read alike: getSessions returns []).
\* ------------------------------------------------------------------------
DigitChars == <<"0", "1", "2", "3", "4", "5", "6", "7", "8", "9">>

IsDigit(ch) == \E d \in 1..10 : DigitChars[d] = ch

DigitValue(ch) == (CHOOSE d \in 1..10 : DigitChars[d] = ch) - 1

\* parseInt(str, 10) of a string without sign or leading blanks: the value
\* of its longest prefix of digits, NaN when that prefix is empty
RECURSIVE ParseDigits(_, _, _)
ParseDigits(str, i, acc) ==
    IF i > Len(str) \/ ~IsDigit(str[i]) THEN acc
    ELSE ParseDigits(str, i + 1, 10 * acc + DigitValue(str[i]))

parseInt(str) ==
    IF Len(str) = 0 \/ ~IsDigit(str[1]) THEN NaN ELSE ParseDigits(str, 1, 0)

\* n.toString() for an integer n >= 0
RECURSIVE toString(_)
toString(n) ==
    IF n < 10 THEN <<DigitChars[n + 1]>>
    ELSE Append(toString(n \div 10), DigitChars[(n % 10) + 1])

\* str.padStart(len, ch)
RECURSIVE padStart(_, _, _)
padStart(str, len, ch) == IF Len(str) >= len THEN str ELSE padStart(<<ch>> \o str, len, ch)

KeepLast == 50

IdWidth == 4

FirstId == <<"0", "0", "0", "1">>

\* what JSON.stringify followed by JSON.parse makes of a session: strings
\* are kept, a non-finite number is read back as null
SessionJSON(rec) ==
    [id |-> rec.id,
     age |-> JSONNumber(rec.age),
     height |-> JSONNumber(rec.height),
     weight |-> JSONNumber(rec.weight),
     quality |-> rec.quality,
     features |-> [i \in 1..Len(rec.features) |-> JSONNumber(rec.features[i])],
     pred |-> [has |-> rec.pred.has, sbp |-> JSONNumber(rec.pred.sbp),
               dbp |-> JSONNumber(rec.pred.dbp), glucose |-> JSONNumber(rec.pred.glucose)]]

\* JSON.stringify(sessions) of setItem, as JSON.parse reads it
StoredSessions(list) == [i \in 1..Len(list) |-> SessionJSON(list[i])]

\* the item is held as getSessions parses it; the absent item reads as []
getSessions(item) == item

\* sessions.map(s => parseInt(s.id, 10))
IdsOf(list) == {parseInt(list[i].id) : i \in 1..Len(list)}

\* Mutant: beyond 50 the session just pushed is dropped.
saveSessionWriteDropNewest(read, rec) ==
    LET pushed == Append(read, rec)
    IN  StoredSessions(IF Len(pushed) > KeepLast THEN read ELSE pushed)

\* saveSession after its await: push, drop the oldest beyond 50, setItem
saveSessionWrite(read, rec) ==
    LET pushed == Append(read, rec)
    IN  StoredSessions(IF Len(pushed) > KeepLast THEN Tail(pushed) ELSE pushed)

\* deleteSession: sessions.filter(s => s.id !== id), setItem
deleteSessionWrite(read, id) == StoredSessions(SelectSeq(read, LAMBDA x : x.id # id))

\* Mutant: the next id is not padded.
generateNextIdUnpadded(item) ==
    LET read == getSessions(item)
        ids == {parseInt(read[i].id) : i \in 1..Len(read)} \ {NaN}
    IN  IF Len(read) = 0 THEN FirstId
        ELSE IF ids = {} THEN FirstId
        ELSE toString((CHOOSE m \in ids : \A k \in ids : k <= m) + 1)

\* Mutant: the next id follows the id of the oldest stored session.
generateNextIdFromFirst(item) ==
    LET read == getSessions(item)
    IN  IF Len(read) = 0 THEN FirstId
        ELSE padStart(toString(parseInt(read[1].id) + 1), IdWidth, "0")

\* Mutant: the next id is the number of stored sessions plus one.
generateNextIdByCount(item) ==
    LET read == getSessions(item)
    IN  padStart(toString(Len(read) + 1), IdWidth, "0")

generateNextId(item) ==
    LET read == getSessions(item)
        ids == {parseInt(read[i].id) : i \in 1..Len(read)} \ {NaN}
    IN  IF Len(read) = 0 THEN FirstId
        ELSE IF ids = {} THEN FirstId
        ELSE padStart(toString((CHOOSE m \in ids : \A k \in ids : k <= m) + 1),
                      IdWidth, "0")

\* ------------------------------------------------------------------------
\* generateMIMICCSV (PART 3).  Timestamps are milliseconds within the first
\* hour after the epoch, where toISOString gives 1970-01-01T00:MM:SS.mmmZ.
\* ------------------------------------------------------------------------
MsPerHour == 60 * 60 * 1000

CsvHeader == <<<<"T", "i", "m", "e", "s", "t", "a", "m", "p">>, <<"P", "P", "G">>>>

IsoPrefix == <<"1", "9", "7", "0", "-", "0", "1", "-", "0", "1", "T", "0", "0", ":">>

\* new Date(ts).toISOString() for 0 <= ts < MsPerHour
toISOString(ts) ==
    IsoPrefix \o padStart(toString(ts \div 60000), 2, "0") \o <<":">>
              \o padStart(toString((ts % 60000) \div 1000), 2, "0") \o <<".">>
              \o padStart(toString(ts % 1000), 3, "0") \o <<"Z">>

\* a decimal fraction of six digits without its trailing zeros
RECURSIVE StripZeros(_)
StripZeros(str) ==
    IF Len(str) > 0 /\ str[Len(str)] = "0" THEN StripZeros(SubSeq(str, 1, Len(str) - 1)) ELSE str

\* Number.prototype.toString of a finite number
numberToString(v) ==
    LET m == Abs(v)
        whole == toString(m \div Unit)
        frac == StripZeros(padStart(toString(m % Unit), 6, "0"))
    IN  (IF v < 0 THEN <<"-">> ELSE <<>>) \o whole
        \o (IF frac = <<>> THEN <<>> ELSE <<".">> \o frac)

\* parts.join(sep)
RECURSIVE join(_, _)
join(parts, sep) ==
    IF Len(parts) = 0 THEN <<>>
    ELSE IF Len(parts) = 1 THEN parts[1]
    ELSE parts[1] \o <<sep>> \o join(Tail(parts), sep)

\* Mutant: a sample stamped exactly endTime is left out.
generateMIMICCSVEndExclusive(rec, startTime, endTime) ==
    LET inside == SelectSeq(rec.rawSignal,
                          LAMBDA s : s.timestamp >= startTime /\ s.timestamp < endTime)
        rows == <<CsvHeader>> \o
                [i \in 1..Len(inside) |->
                    <<toISOString(inside[i].timestamp), numberToString(inside[i].value)>>]
    IN  join([i \in 1..Len(rows) |-> join(rows[i], ",")], "\n")

generateMIMICCSV(rec, startTime, endTime) ==
    LET inside == SelectSeq(rec.rawSignal,
                          LAMBDA s : s.timestamp >= startTime /\ s.timestamp <= endTime)
        rows == <<CsvHeader>> \o
                [i \in 1..Len(inside) |->
                    <<toISOString(inside[i].timestamp), numberToString(inside[i].value)>>]
    IN  join([i \in 1..Len(rows) |-> join(rows[i], ",")], "\n")

\* ------------------------------------------------------------------------
\* RecordingTab.  null is the empty vector, the session without id and the
\* results record with has = FALSE.
\* ------------------------------------------------------------------------
Tabs == {"recording", "history", "model", "settings"}

NoFeatures == <<>>

NoPrediction == [has |-> FALSE, sbp |-> 0, dbp |-> 0, glucose |-> 0]

NoSession ==
    [id |-> <<>>, age |-> 0, height |-> 0, weight |-> 0, quality |-> "",
     features |-> NoFeatures, pred |-> NoPrediction]

NoInitial == [has |-> FALSE, sbp |-> 0, dbp |-> 0, glucose |-> 0, hr |-> 0, hrv |-> 0]

NoFlight == [active |-> FALSE, session |-> NoSession, features |-> NoFeatures]

\* useState initial values of RecordingTab; alert is the message of the last
\* alert() the component raised
RecTabInit ==
    [isRecording |-> FALSE, statusMsg |-> "Ready", alert |-> "", showResults |-> FALSE,
     extractedFeatures |-> NoFeatures, pendingSession |-> NoSession,
     initialResults |-> NoInitial, isInferencing |-> FALSE,
     modelResults |-> NoPrediction, isSaved |-> FALSE]

\* useState({ name: '', age: '30', height: '170', weight: '70' }), parsed
UserDetails == [age |-> 30 * Unit, height |-> 170 * Unit, weight |-> 70 * Unit]

\* parseFloat(x.toFixed(2)) for x >= 0
Round2(x) == ((x + Unit \div 200) \div (Unit \div 100)) * (Unit \div 100)

\* setInitialResults({...}) of stopAndAnalyze
InitialResults(features) ==
    LET mathEst == performMathEstimation(features, UserDetails.age, UserDetails.height,
                                         UserDetails.weight)
    IN  [has |-> TRUE, sbp |-> mathEst.sbp, dbp |-> mathEst.dbp,
         glucose |-> mathEst.glucose,
         hr |-> MathRound(At(features, 6)), hrv |-> Round2(At(features, 7))]

\* the offsets handleSaveAndAnalyze reads from localStorage
SavedCalib == IF stored.present THEN stored.val ELSE ZeroOffsets

\* finalResults of handleSaveAndAnalyze
FinalResults(outputData, offs) ==
    [has |-> TRUE,
     sbp |-> Plus(outputData.sbp, offs.sbp),
     dbp |-> Plus(outputData.dbp, offs.dbp),
     glucose |-> Plus(outputData.glu, offs.glu)]

\* ------------------------------------------------------------------------
\* Specification SpecExtract: extractFeatures applied to a family of
\* signals of every length up to MaxLen: a motif repeated over the first
\* `cut` samples and a flat rest, and the missing argument.
\* ------------------------------------------------------------------------
MaxLen == 40

SampleVals == {-400, 0, 100, 800}

MotifLens == 1..3

Cuts == {3, 15}

Wave(motif, n, cut) ==
    [i \in 1..n |-> IF i <= cut THEN motif[((i - 1) % Len(motif)) + 1] ELSE motif[1]]

Waves ==
    {Wave(m, n, c) : m \in UNION {SeqsOfLen(SampleVals, k) : k \in MotifLens},
                     n \in 0..MaxLen, c \in Cuts \cup {MaxLen + 1}}

ExtractInputs ==
    {[null |-> FALSE, arr |-> w] : w \in Waves} \cup {[null |-> TRUE, arr |-> <<>>]}

\* ------------------------------------------------------------------------
\* Specification SpecPeaks: findPeaks applied to every short sequence
\* ------------------------------------------------------------------------
MaxPeakLen == 7
PeakVals == {0, 1, 2}
MaxDist == 4

SpecExample == <<0, 3, 1, 5, 1, 4, 0>>

PeakInputs == SeqsUpTo(PeakVals, MaxPeakLen) \cup {SpecExample}

IdlePeaks == data = <<>> /\ distance = 1 /\ kept = <<>> /\ pdone = TRUE

IdleExtract == ppg = [null |-> TRUE, arr |-> <<>>] /\ outcome = Throw("Signal too short")

NoEstimate == [done |-> FALSE, sbp |-> 0, dbp |-> 0, glucose |-> 0]

IdleEstimate ==
    /\ estIn = [features |-> <<>>, age |-> 0, height |-> 0, weight |-> 0]
    /\ estOut = NoEstimate

IdleNav == activeTab = "recording"

IdleRec ==
    /\ sessions = <<>>
    /\ everSaved = {}
    /\ userItem = FALSE
    /\ recTab = RecTabInit
    /\ flight = NoFlight

IdleSavers == savers = <<>>

NoCall == [fn |-> "none"]

IdleCall == call = NoCall /\ ret = NoCall

IdleTab ==
    /\ mounted = FALSE
    /\ session = FALSE
    /\ offsets = ZeroOffsets
    /\ result = NoResult
    /\ refs = DefaultRefs
    /\ stored = NoItem
    /\ inflight = <<>>
    /\ runs = 0

InitPeaks ==
    /\ data \in PeakInputs
    /\ distance \in 1..MaxDist
    /\ kept = <<>>
    /\ pdone = FALSE
    /\ IdleExtract
    /\ IdleEstimate
    /\ IdleTab
    /\ IdleNav
    /\ IdleRec
    /\ IdleSavers
    /\ IdleCall

FindPeaks ==
    /\ ~pdone
    /\ kept' = findPeaks(data, distance)
    /\ pdone' = TRUE
    /\ UNCHANGED <<data, distance, extractVars, estVars, tabVars,
                   navVars, recVars, saveVars, callVars>>

NextPeaks == FindPeaks

SpecPeaks == InitPeaks /\ [][NextPeaks]_vars

InitExtract ==
    /\ ppg \in ExtractInputs
    /\ outcome = Pending
    /\ IdlePeaks
    /\ IdleEstimate
    /\ IdleTab
    /\ IdleNav
    /\ IdleRec
    /\ IdleSavers
    /\ IdleCall

ExtractFeatures ==
    /\ outcome = Pending
    /\ outcome' = extractFeatures(ppg)
    /\ UNCHANGED <<ppg, peakVars, estVars, tabVars,
                   navVars, recVars, saveVars, callVars>>

NextExtract == ExtractFeatures

SpecExtract == InitExtract /\ [][NextExtract]_vars

\* ------------------------------------------------------------------------
\* Specification SpecEstimate: performMathEstimation applied to feature
\* vectors whose four used entries, and demographics, range over zero,
\* ordinary values and the largest finite magnitude.
\* ------------------------------------------------------------------------
RIVals == {0, Dec(3, 10), Unit, FMax}

AIxVals == {0, -Dec(5, 10), -Dec(2, 10), FMax}

HRVals == {0, 60 * Unit, 120 * Unit}

StiffVals == {0, Dec(5, 100), 2 * Unit}

AgeVals == {0, 30 * Unit, 80 * Unit}

HeightVals == {0, 150 * Unit, 170 * Unit}

WeightVals == {0, 70 * Unit, 120 * Unit, FMax}

\* an 18-entry vector with the given entries at positions 0, 1, 6 and 13
Features(f0, f1, f6, f13) ==
    [i \in 1..18 |-> IF i = 1 THEN f0 ELSE IF i = 2 THEN f1
                     ELSE IF i = 7 THEN f6 ELSE IF i = 14 THEN f13 ELSE 0]

EstInputs ==
    {[features |-> Features(f0, f1, f6, f13), age |-> a, height |-> h, weight |-> w] :
        f0 \in RIVals, f1 \in AIxVals, f6 \in HRVals, f13 \in StiffVals,
        a \in AgeVals, h \in HeightVals, w \in WeightVals}

InitEstimate ==
    /\ estIn \in EstInputs
    /\ estOut = NoEstimate
    /\ IdlePeaks
    /\ IdleExtract
    /\ IdleTab
    /\ IdleNav
    /\ IdleRec
    /\ IdleSavers
    /\ IdleCall

PerformMathEstimation ==
    /\ ~estOut.done
    /\ estOut' = [done |-> TRUE] @@
                 performMathEstimation(estIn.features, estIn.age, estIn.height, estIn.weight)
    /\ UNCHANGED <<estIn, peakVars, extractVars, tabVars,
                   navVars, recVars, saveVars, callVars>>

NextEstimate == PerformMathEstimation

SpecEstimate == InitEstimate /\ [][NextEstimate]_vars

\* ------------------------------------------------------------------------
\* Specification SpecModelTab: the model tab is opened and closed, the
\* model is loaded, inferences are started and complete, references are
\* typed and calibrate is pressed, in any order the page allows.
\* ------------------------------------------------------------------------
MaxRuns == 3

RawOutputs ==
    {[sbp |-> 130 * Unit, dbp |-> 85 * Unit, glu |-> 100 * Unit],
     [sbp |-> 135 * Unit, dbp |-> 90 * Unit, glu |-> 95 * Unit]}

RefChoices ==
    {DefaultRefs, [sbp |-> 125 * Unit, dbp |-> 82 * Unit, glu |-> 110 * Unit]}

\* a session as the recording tab saves it
SavedExample ==
    [id |-> FirstId,
     age |-> 30 * Unit, height |-> 170 * Unit, weight |-> 70 * Unit, quality |-> "Good",
     features |-> Features(Dec(3, 10), -Dec(5, 10), 75 * Unit, 0),
     pred |-> [has |-> TRUE, sbp |-> 130 * Unit, dbp |-> 85 * Unit, glucose |-> 100 * Unit]]

InitModelTab ==
    /\ mounted = FALSE
    /\ session = FALSE
    /\ offsets = ZeroOffsets
    /\ result = NoResult
    /\ refs = DefaultRefs
    /\ stored = NoItem
    /\ inflight = <<>>
    /\ runs = 0
    /\ activeTab = "recording"
    /\ sessions = <<SavedExample>>
    /\ everSaved = IdsOf(sessions)
    /\ userItem = TRUE
    /\ recTab = RecTabInit
    /\ flight = NoFlight
    /\ IdleSavers
    /\ IdleCall
    /\ IdlePeaks
    /\ IdleExtract
    /\ IdleEstimate

\* the Model tab is chosen in the navigation (which the results panel of
\* the recording tab covers): the tab that was shown is unmounted, ModelTab
\* mounts with its initial state, and the effect's init reads the stored
\* offsets
Mount ==
    /\ ~mounted
    /\ ~recTab.showResults
    /\ activeTab' = "model"
    /\ recTab' = RecTabInit
    /\ mounted' = TRUE
    /\ session' = FALSE
    /\ offsets' = IF stored.present THEN stored.val ELSE ZeroOffsets
    /\ result' = NoResult
    /\ refs' = DefaultRefs
    /\ UNCHANGED <<stored, inflight, runs, peakVars, extractVars, estVars,
                   sessions, userItem, everSaved, flight, saveVars, callVars>>

\* init: InferenceSession.create resolved
SessionLoaded ==
    /\ mounted
    /\ ~session
    /\ session' = TRUE
    /\ UNCHANGED <<mounted, offsets, result, refs, stored, inflight, runs,
                   peakVars, extractVars, estVars,
                   navVars, recVars, saveVars, callVars>>

\* runModel up to its await, for a selected recording whose features were
\* extracted: the call holds the offsets of its render
RunModelStart ==
    /\ mounted
    /\ session
    /\ Len(sessions) > 0
    /\ runs < MaxRuns
    /\ inflight' = Append(inflight, [req |-> runs + 1, offsets |-> offsets])
    /\ runs' = runs + 1
    /\ UNCHANGED <<mounted, session, offsets, result, refs, stored,
                   peakVars, extractVars, estVars,
                   navVars, recVars, saveVars, callVars>>

\* setResult(final) of the call numbered req
Shown(final, req) ==
    [has |-> final.has, raw |-> final.raw, pred |-> final.pred, req |-> req]

\* Mutant: a call older than the one whose result is shown does not set
\* the result.
RunModelCompleteNewest ==
    /\ mounted
    /\ \E i \in 1..Len(inflight), outputData \in RawOutputs :
          /\ result' = IF inflight[i].req > result.req
                        THEN Shown(FinalResult(outputData, inflight[i].offsets), inflight[i].req)
                        ELSE result
          /\ inflight' = SubSeq(inflight, 1, i - 1) \o SubSeq(inflight, i + 1, Len(inflight))
    /\ UNCHANGED <<mounted, session, offsets, refs, stored, runs,
                   peakVars, extractVars, estVars,
                   navVars, recVars, saveVars, callVars>>

\* runModel after its await: session.run resolved with outputData
RunModelComplete ==
    /\ mounted
    /\ \E i \in 1..Len(inflight), outputData \in RawOutputs :
          /\ result' = Shown(FinalResult(outputData, inflight[i].offsets), inflight[i].req)
          /\ inflight' = SubSeq(inflight, 1, i - 1) \o SubSeq(inflight, i + 1, Len(inflight))
    /\ UNCHANGED <<mounted, session, offsets, refs, stored, runs,
                   peakVars, extractVars, estVars,
                   navVars, recVars, saveVars, callVars>>

\* the reference inputs' onChange
SetRefs ==
    /\ mounted
    /\ result.has
    /\ \E r \in RefChoices : r # refs /\ refs' = r
    /\ UNCHANGED <<mounted, session, offsets, result, stored, inflight, runs,
                   peakVars, extractVars, estVars,
                   navVars, recVars, saveVars, callVars>>

calibrate ==
    /\ mounted
    /\ result.has
    /\ offsets' = NewOffsets(refs, result)
    /\ stored' = [present |-> TRUE, val |-> JSONRoundTrip(NewOffsets(refs, result))]
    /\ result' = [result EXCEPT !.pred = refs]
    /\ UNCHANGED <<mounted, session, refs, inflight, runs,
                   peakVars, extractVars, estVars,
                   navVars, recVars, saveVars, callVars>>

\* another tab is chosen: the component's state is gone, and a call still
\* awaiting session.run sets the state of no mounted component
Unmount ==
    /\ mounted
    /\ \E t \in Tabs \ {"model"} : activeTab' = t
    /\ mounted' = FALSE
    /\ session' = FALSE
    /\ offsets' = ZeroOffsets
    /\ result' = NoResult
    /\ refs' = DefaultRefs
    /\ inflight' = <<>>
    /\ UNCHANGED <<stored, runs, peakVars, extractVars, estVars,
                   recVars, saveVars, callVars>>

NextModelTab ==
    \/ Mount
    \/ SessionLoaded
    \/ RunModelStart
    \/ RunModelComplete
    \/ SetRefs
    \/ calibrate
    \/ Unmount

SpecModelTab == InitModelTab /\ [][NextModelTab]_vars

\* ------------------------------------------------------------------------
\* Specification SpecApp: the whole page from a fresh install.  One tab is
\* rendered at a time; the recording tab records, analyses, runs the model
\* and saves, the history tab deletes a session, the settings tab deletes
\* all, the model tab infers and calibrates.  The samples of a recording
\* are an input of stopAndAnalyze: the model draws the signal that
\* preprocessPPG hands to extractFeatures.
\* ------------------------------------------------------------------------
MaxSaved == 2

AnalysedSignals == {Wave(<<0, 800, -400>>, 40, 41), Wave(<<100>>, 40, 41)}

AnalysisOf == [filtered \in AnalysedSignals |-> extractFeatures([null |-> FALSE, arr |-> filtered])]

InitApp ==
    /\ IdleTab
    /\ IdleNav
    /\ IdleRec
    /\ IdleSavers
    /\ IdleCall
    /\ IdlePeaks
    /\ IdleExtract
    /\ IdleEstimate

\* a tab other than Model is chosen in the navigation (which the results
\* panel of the recording tab covers) while Model is not shown
SwitchTab ==
    /\ activeTab # "model"
    /\ ~recTab.showResults
    /\ \E t \in Tabs \ {"model", activeTab} : activeTab' = t
    /\ recTab' = RecTabInit
    /\ UNCHANGED <<sessions, userItem, everSaved, flight, tabVars, saveVars, callVars,
                   peakVars, extractVars, estVars>>

\* "Confirm & Start" of the user form
startRecording ==
    /\ activeTab = "recording"
    /\ ~recTab.isRecording
    /\ ~recTab.showResults
    /\ userItem' = TRUE
    /\ recTab' = [recTab EXCEPT !.isRecording = TRUE, !.statusMsg = "Recording..."]
    /\ UNCHANGED <<activeTab, sessions, everSaved, flight, tabVars, saveVars, callVars,
                   peakVars, extractVars, estVars>>

stopAndAnalyze ==
    /\ activeTab = "recording"
    /\ recTab.isRecording
    /\ \E longEnough \in BOOLEAN, filtered \in AnalysedSignals :
          LET o == AnalysisOf[filtered]
              stopped == [recTab EXCEPT !.isRecording = FALSE]
          IN  recTab' =
                  IF ~longEnough
                  THEN [stopped EXCEPT !.statusMsg = "Ready",
                                       !.alert = "Recording too short! Need at least 10 seconds."]
                  ELSE IF o.kind # "ok"
                  THEN [stopped EXCEPT !.statusMsg = "Error",
                            !.alert = "Analysis failed. Try again with a clearer signal."]
                  ELSE [stopped EXCEPT
                           !.statusMsg = "Analyzing...",
                           !.extractedFeatures = o.vec,
                           !.initialResults = InitialResults(o.vec),
                           !.pendingSession =
                               [id |-> generateNextId(sessions),
                                age |-> UserDetails.age, height |-> UserDetails.height,
                                weight |-> UserDetails.weight, quality |-> "Good",
                                features |-> o.vec, pred |-> NoPrediction],
                           !.showResults = TRUE]
    /\ UNCHANGED <<activeTab, sessions, userItem, everSaved, flight, tabVars, saveVars, callVars,
                   peakVars, extractVars, estVars>>

\* handleSaveAndAnalyze up to its first await
handleSaveAndAnalyze ==
    /\ activeTab = "recording"
    /\ recTab.showResults
    /\ ~recTab.isSaved
    /\ ~recTab.isInferencing
    /\ recTab.pendingSession # NoSession
    /\ recTab.extractedFeatures # NoFeatures
    /\ Len(sessions) < MaxSaved
    /\ parseInt(recTab.pendingSession.id) <= MaxSaved
    /\ recTab' = [recTab EXCEPT !.isInferencing = TRUE]
    /\ flight' = [active |-> TRUE, session |-> recTab.pendingSession,
                  features |-> recTab.extractedFeatures]
    /\ UNCHANGED <<activeTab, sessions, userItem, everSaved, tabVars, saveVars, callVars,
                   peakVars, extractVars, estVars>>

\* Mutant: the saved session is built anew from the id and the vitals
\* instead of being a copy of the pending one.
InferenceDoneVitalsOnly ==
    /\ flight.active
    /\ \E outputData \in RawOutputs :
          LET finalResults == FinalResults(outputData, SavedCalib)
              updatedSession == [NoSession EXCEPT !.id = flight.session.id,
                                                  !.pred = finalResults]
          IN  /\ recTab' = [recTab EXCEPT !.modelResults = finalResults,
                                          !.isSaved = TRUE,
                                          !.isInferencing = FALSE]
              /\ sessions' = saveSessionWrite(getSessions(sessions), updatedSession)
              /\ everSaved' = everSaved \cup {parseInt(updatedSession.id)}
    /\ flight' = NoFlight
    /\ UNCHANGED <<activeTab, userItem, tabVars, saveVars, callVars,
                   peakVars, extractVars, estVars>>

\* handleSaveAndAnalyze after session.run resolved: offsets are read from
\* localStorage, the session is saved, finally clears the flag
InferenceDone ==
    /\ flight.active
    /\ \E outputData \in RawOutputs :
          LET finalResults == FinalResults(outputData, SavedCalib)
              updatedSession == [flight.session EXCEPT !.pred = finalResults]
          IN  /\ recTab' = [recTab EXCEPT !.modelResults = finalResults,
                                          !.isSaved = TRUE,
                                          !.isInferencing = FALSE]
              /\ sessions' = saveSessionWrite(getSessions(sessions), updatedSession)
              /\ everSaved' = everSaved \cup {parseInt(updatedSession.id)}
    /\ flight' = NoFlight
    /\ UNCHANGED <<activeTab, userItem, tabVars, saveVars, callVars,
                   peakVars, extractVars, estVars>>

\* Mutant: the failed attempt also drops what the analysis had produced.
InferenceFailedResets ==
    /\ flight.active
    /\ recTab' = [recTab EXCEPT !.isInferencing = FALSE,
                                !.alert = "Failed to run analysis model.",
                                !.extractedFeatures = NoFeatures,
                                !.pendingSession = NoSession,
                                !.initialResults = NoInitial]
    /\ flight' = NoFlight
    /\ UNCHANGED <<activeTab, sessions, userItem, everSaved, tabVars, saveVars, callVars,
                   peakVars, extractVars, estVars>>

\* handleSaveAndAnalyze when InferenceSession.create or session.run
\* rejected: catch alerts, finally clears the flag
InferenceFailed ==
    /\ flight.active
    /\ recTab' = [recTab EXCEPT !.isInferencing = FALSE,
                                !.alert = "Failed to run analysis model."]
    /\ flight' = NoFlight
    /\ UNCHANGED <<activeTab, sessions, userItem, everSaved, tabVars, saveVars, callVars,
                   peakVars, extractVars, estVars>>

\* Discard (confirmed) while nothing was saved, Done afterwards
resetFlow ==
    /\ activeTab = "recording"
    /\ recTab.showResults
    /\ ~recTab.isInferencing
    /\ recTab' = [recTab EXCEPT !.showResults = FALSE,
                                !.extractedFeatures = NoFeatures,
                                !.pendingSession = NoSession,
                                !.initialResults = NoInitial,
                                !.modelResults = NoPrediction,
                                !.isSaved = FALSE,
                                !.statusMsg = "Ready"]
    /\ UNCHANGED <<activeTab, sessions, userItem, everSaved, flight, tabVars, saveVars, callVars,
                   peakVars, extractVars, estVars>>

\* history tab: deleteSession(id), confirmed
handleDelete ==
    /\ activeTab = "history"
    /\ \E i \in 1..Len(sessions) :
          sessions' = deleteSessionWrite(getSessions(sessions), sessions[i].id)
    /\ UNCHANGED <<activeTab, userItem, everSaved, recTab, flight, tabVars, saveVars, callVars,
                   peakVars, extractVars, estVars>>

\* Mutant: "Delete All Data" clears the whole localStorage.
handleClearDataWholeStorage ==
    /\ activeTab = "settings"
    /\ sessions' = <<>>
    /\ userItem' = FALSE
    /\ stored' = NoItem
    /\ UNCHANGED <<activeTab, everSaved, recTab, flight, mounted, session, offsets, result, refs,
                   inflight, runs, saveVars, callVars, peakVars, extractVars, estVars>>

\* settings tab: "Delete All Data", confirmed: clearAll removes 'ppg_sessions'
handleClearData ==
    /\ activeTab = "settings"
    /\ sessions' = <<>>
    /\ UNCHANGED <<activeTab, userItem, everSaved, recTab, flight, tabVars, saveVars, callVars,
                   peakVars, extractVars, estVars>>

NextApp ==
    \/ SwitchTab
    \/ startRecording
    \/ stopAndAnalyze
    \/ handleSaveAndAnalyze
    \/ InferenceDone
    \/ InferenceFailed
    \/ resetFlow
    \/ handleDelete
    \/ handleClearData
    \/ Mount
    \/ SessionLoaded
    \/ RunModelStart
    \/ RunModelComplete
    \/ SetRefs
    \/ calibrate
    \/ Unmount

SpecApp == InitApp /\ [][NextApp]_vars

\* ------------------------------------------------------------------------
\* Specification SpecNextId: generateNextId applied to store contents.  Ids
\* are handed out as max + 1 and any session can be deleted, so a store
\* holds up to 50 sessions with increasing ids; the model holds up to
\* MaxStore of them, ids drawn from IdPool.
\* ------------------------------------------------------------------------
MaxStore == 3

IdPool == {1, 2, 9, 10, 99, 100, 9998, 9999}

SessionWithId(n) == [SavedExample EXCEPT !.id = padStart(toString(n), IdWidth, "0")]

StoreContents ==
    {[i \in 1..Len(ids) |-> SessionWithId(ids[i])] :
        ids \in {SortAsc(SetToSeq(S)) : S \in {T \in SUBSET IdPool : Cardinality(T) <= MaxStore}}}

InitNextId ==
    /\ sessions \in StoreContents
    /\ everSaved = IdsOf(sessions)
    /\ call = [fn |-> "generateNextId"]
    /\ ret = NoCall
    /\ activeTab = "recording"
    /\ userItem = TRUE
    /\ recTab = RecTabInit
    /\ flight = NoFlight
    /\ IdleSavers
    /\ IdlePeaks
    /\ IdleExtract
    /\ IdleEstimate
    /\ IdleTab

GenerateNextId ==
    /\ call.fn = "generateNextId"
    /\ ret = NoCall
    /\ ret' = [fn |-> "generateNextId", val |-> generateNextId(sessions)]
    /\ UNCHANGED <<call, peakVars, extractVars, estVars, tabVars, navVars, recVars, saveVars>>

NextNextId == GenerateNextId

SpecNextId == InitNextId /\ [][NextNextId]_vars

\* ------------------------------------------------------------------------
\* Specification SpecPreprocess: preprocessPPG applied to recordings of
\* the lengths around its thresholds: a pulse-like wave, a slow ramp and a
\* constant, without and with not-a-number samples (a frame whose average
\* could not be computed), and the missing argument.
\* ------------------------------------------------------------------------
MaxRaw == 228

RawLens == {0, 1, 2, 29, 30, 31, 224, 225, 226, 227, MaxRaw}

RawShapes == {"pulse", "ramp", "flat"}

PulseMotif == <<120, 135, 150, 140, 128, 131, 126, 122, 119, 118>>

RawSample(shape, i) ==
    IF shape = "pulse" THEN PulseMotif[((i - 1) % Len(PulseMotif)) + 1] * Unit
    ELSE IF shape = "ramp" THEN (100 * Unit) + (i * (Unit \div 4))
    ELSE 128 * Unit

NaNPlaces == {"none", "first", "last", "middle", "all"}

IsNaNPlace(place, i, n) ==
    \/ place = "all"
    \/ place = "first" /\ i = 1
    \/ place = "last" /\ i = n
    \/ place = "middle" /\ i = (n + 1) \div 2

RawSignal(shape, place, n) ==
    [i \in 1..n |-> IF IsNaNPlace(place, i, n) THEN NaN ELSE RawSample(shape, i)]

PreInputs ==
    {[null |-> FALSE, arr |-> RawSignal(sh, pl, n)] :
        sh \in RawShapes, pl \in NaNPlaces, n \in RawLens}
    \cup {[null |-> TRUE, arr |-> <<>>]}

InitPreprocess ==
    /\ call \in {[fn |-> "preprocessPPG", raw |-> r] : r \in PreInputs}
    /\ ret = NoCall
    /\ IdlePeaks
    /\ IdleExtract
    /\ IdleEstimate
    /\ IdleTab
    /\ IdleNav
    /\ IdleRec
    /\ IdleSavers

PreprocessPPG ==
    /\ call.fn = "preprocessPPG"
    /\ ret = NoCall
    /\ ret' = [fn |-> "preprocessPPG", val |-> preprocessPPG(call.raw)]
    /\ UNCHANGED <<call, peakVars, extractVars, estVars, tabVars, navVars, recVars, saveVars>>

NextPreprocess == PreprocessPPG

SpecPreprocess == InitPreprocess /\ [][NextPreprocess]_vars

\* ------------------------------------------------------------------------
\* Specification SpecGauss: gaussianFilter1d applied to constant sequences
\* and to a pulse, of every length up to MaxGauss, with the sigmas of the
\* program (2 and 5), sigma 1, sigma 0 and a negative sigma.
\* ------------------------------------------------------------------------
MaxGauss == 12

Sigmas == {-1, 0, 1, 2, 5}

GaussLevels == {0, Unit, 255 * Unit, -(7 * Unit) \div 2, Unit \div 10, FMax}

GaussInputs ==
    {[i \in 1..n |-> c] : c \in GaussLevels, n \in 0..MaxGauss}
    \cup {[i \in 1..n |-> RawSample("pulse", i)] : n \in 0..MaxGauss}

InitGauss ==
    /\ call \in {[fn |-> "gaussianFilter1d", data |-> d, sigma |-> sg] :
                    d \in GaussInputs, sg \in Sigmas}
    /\ ret = NoCall
    /\ IdlePeaks
    /\ IdleExtract
    /\ IdleEstimate
    /\ IdleTab
    /\ IdleNav
    /\ IdleRec
    /\ IdleSavers

GaussianFilter1d ==
    /\ call.fn = "gaussianFilter1d"
    /\ ret = NoCall
    /\ ret' = [fn |-> "gaussianFilter1d", val |-> gaussianFilter1d(call.data, call.sigma)]
    /\ UNCHANGED <<call, peakVars, extractVars, estVars, tabVars, navVars, recVars, saveVars>>

NextGauss == GaussianFilter1d

SpecGauss == InitGauss /\ [][NextGauss]_vars

\* ------------------------------------------------------------------------
\* Specification SpecCsv: generateMIMICCSV applied to sessions of up to
\* MaxCsv raw samples (camera values 0 to 255, stamped in any order) and
\* to windows that start or end on, before or after a sample; start > end
\* included.
\* ------------------------------------------------------------------------
MaxCsv == 3

CsvStamps == {0, 33, 61001}

CsvValues == {0, (257 * Unit) \div 2}

CsvBounds == {0, 33, 34, 61001}

CsvSessions ==
    {[rawSignal |-> raw] :
        raw \in SeqsUpTo([timestamp : CsvStamps, value : CsvValues], MaxCsv)}

InitCsv ==
    /\ call \in {[fn |-> "generateMIMICCSV", session |-> rec, startTime |-> st, endTime |-> en] :
                    rec \in CsvSessions, st \in CsvBounds, en \in CsvBounds}
    /\ ret = NoCall
    /\ IdlePeaks
    /\ IdleExtract
    /\ IdleEstimate
    /\ IdleTab
    /\ IdleNav
    /\ IdleRec
    /\ IdleSavers

GenerateMIMICCSV ==
    /\ call.fn = "generateMIMICCSV"
    /\ ret = NoCall
    /\ ret' = [fn |-> "generateMIMICCSV",
               val |-> generateMIMICCSV(call.session, call.startTime, call.endTime)]
    /\ UNCHANGED <<call, peakVars, extractVars, estVars, tabVars, navVars, recVars, saveVars>>

NextCsv == GenerateMIMICCSV

SpecCsv == InitCsv /\ [][NextCsv]_vars

\* ------------------------------------------------------------------------
\* Specification SpecSave: two callers of saveSession on the same store
\* (two windows of the page, or two calls of one tick: the await of
\* getSessions lets the other call run between the read and the write).
\* Both hold a session analysed against the same store, so both carry the
\* id generateNextId gave for it.
\* ------------------------------------------------------------------------
Callers == {"a", "b"}

FullStore == [i \in 1..KeepLast |-> SessionWithId(i)]

SaveStores == StoreContents \cup {FullStore}

\* the session a caller saves: finalResults differ from caller to caller
NewSession(c, store) ==
    [id |-> generateNextId(store),
     age |-> SavedExample.age, height |-> SavedExample.height,
     weight |-> SavedExample.weight, quality |-> SavedExample.quality,
     features |-> SavedExample.features,
     pred |-> FinalResults(IF c = "a" THEN [sbp |-> 130 * Unit, dbp |-> 85 * Unit, glu |-> 100 * Unit]
                           ELSE [sbp |-> 135 * Unit, dbp |-> 90 * Unit, glu |-> 95 * Unit],
                           ZeroOffsets)]

InitSave ==
    /\ sessions \in SaveStores
    /\ everSaved = IdsOf(sessions)
    /\ savers = [c \in Callers |->
                    [pc |-> "called", rec |-> NewSession(c, sessions), read |-> <<>>]]
    /\ activeTab = "recording"
    /\ userItem = TRUE
    /\ recTab = RecTabInit
    /\ flight = NoFlight
    /\ IdleCall
    /\ IdlePeaks
    /\ IdleExtract
    /\ IdleEstimate
    /\ IdleTab

\* saveSession up to its await: getSessions reads the item
SaveRead(c) ==
    /\ savers[c].pc = "called"
    /\ savers' = [savers EXCEPT ![c].pc = "read", ![c].read = getSessions(sessions)]
    /\ UNCHANGED <<sessions, userItem, everSaved, recTab, flight, peakVars, extractVars, estVars,
                   tabVars, navVars, callVars>>

\* Mutant: the write starts from the item as it is when the write is made.
SaveWriteFresh(c) ==
    /\ savers[c].pc = "read"
    /\ sessions' = saveSessionWrite(getSessions(sessions), savers[c].rec)
    /\ savers' = [savers EXCEPT ![c].pc = "resolved"]
    /\ UNCHANGED <<userItem, everSaved, recTab, flight, peakVars, extractVars, estVars,
                   tabVars, navVars, callVars>>

\* saveSession after its await: push to the list it read, shift, setItem;
\* the promise resolves without a value
SaveWrite(c) ==
    /\ savers[c].pc = "read"
    /\ sessions' = saveSessionWrite(savers[c].read, savers[c].rec)
    /\ savers' = [savers EXCEPT ![c].pc = "resolved"]
    /\ UNCHANGED <<userItem, everSaved, recTab, flight, peakVars, extractVars, estVars,
                   tabVars, navVars, callVars>>

NextSave == \E c \in Callers : SaveRead(c) \/ SaveWrite(c)

SpecSave == InitSave /\ [][NextSave]_vars


\* ------------------------------------------------------------------------
\* Specification SpecStore: one caller of SignalStorage with at most one
\* pending session, making up to MaxOps calls in any order.  The store
\* starts empty, or as 49 or 50 saves into the empty store leave it.
\* `call` is the last call made and the number of calls so far.
\* ------------------------------------------------------------------------
MaxOps == 7

StoreInits == {<<>>, SubSeq(FullStore, 1, KeepLast - 1), FullStore}

StoreCall(fn, arg) == [fn |-> fn, arg |-> arg, ops |-> call.ops + 1]

\* the ids deleteSession is called with: the oldest and the newest stored
\* session, the pending one, and the first id
DeleteArgs ==
    {sessions[i].id : i \in {1, Len(sessions)} \cap (1..Len(sessions))}
        \cup ({recTab.pendingSession.id} \ {<<>>}) \cup {FirstId}

InitStore ==
    /\ sessions \in StoreInits
    /\ everSaved = IdsOf(sessions)
    /\ userItem = TRUE
    /\ recTab = RecTabInit
    /\ flight = NoFlight
    /\ call = [fn |-> "none", arg |-> <<>>, ops |-> 0]
    /\ ret = NoCall
    /\ IdleNav
    /\ IdleSavers
    /\ IdlePeaks
    /\ IdleExtract
    /\ IdleEstimate
    /\ IdleTab

\* stopAndAnalyze: the id is allocated and the session is pending
Analyze ==
    /\ call.ops < MaxOps
    /\ recTab.pendingSession = NoSession
    /\ recTab' = [recTab EXCEPT !.pendingSession =
                     [SavedExample EXCEPT !.id = generateNextId(sessions),
                                          !.pred = NoPrediction]]
    /\ call' = StoreCall("generateNextId", <<>>)
    /\ UNCHANGED <<sessions, userItem, everSaved, flight, ret, peakVars, extractVars,
                   estVars, tabVars, navVars, saveVars>>

\* the pending session is saved with its vitals; Done resets the flow
Save ==
    /\ call.ops < MaxOps
    /\ recTab.pendingSession # NoSession
    /\ sessions' = saveSessionWrite(getSessions(sessions),
                       [recTab.pendingSession EXCEPT !.pred = SavedExample.pred])
    /\ everSaved' = everSaved \cup {parseInt(recTab.pendingSession.id)}
    /\ recTab' = [recTab EXCEPT !.pendingSession = NoSession]
    /\ call' = StoreCall("saveSession", recTab.pendingSession.id)
    /\ UNCHANGED <<userItem, flight, ret, peakVars, extractVars,
                   estVars, tabVars, navVars, saveVars>>

\* Discard: the pending session is dropped
Discard ==
    /\ call.ops < MaxOps
    /\ recTab.pendingSession # NoSession
    /\ recTab' = [recTab EXCEPT !.pendingSession = NoSession]
    /\ call' = StoreCall("discard", <<>>)
    /\ UNCHANGED <<sessions, userItem, everSaved, flight, ret, peakVars, extractVars,
                   estVars, tabVars, navVars, saveVars>>

DeleteSession ==
    /\ call.ops < MaxOps
    /\ \E id \in DeleteArgs :
          /\ sessions' = deleteSessionWrite(getSessions(sessions), id)
          /\ call' = StoreCall("deleteSession", id)
    /\ UNCHANGED <<userItem, everSaved, recTab, flight, ret, peakVars, extractVars,
                   estVars, tabVars, navVars, saveVars>>

ClearAll ==
    /\ call.ops < MaxOps
    /\ sessions' = <<>>
    /\ call' = StoreCall("clearAll", <<>>)
    /\ UNCHANGED <<userItem, everSaved, recTab, flight, ret, peakVars, extractVars,
                   estVars, tabVars, navVars, saveVars>>

NextStore == Analyze \/ Save \/ Discard \/ DeleteSession \/ ClearAll

SpecStore == InitStore /\ [][NextStore]_vars


\* ------------------------------------------------------------------------
\* Specification SpecWelch: getWelchLF applied at 30 Hz to signals of
\* lengths around 32, 200 and 256, up to MaxWelch samples, of several
\* shapes and small amplitude.
\* ------------------------------------------------------------------------
MaxWelch == 257

WelchLens == {0, 31, 32, 33, 64, 128, 199, 200, 201, 255, 256, MaxWelch}

WelchShapes == {"zero", "flat", "ramp", "step", "wave"}

WelchSample(shape, i, n) ==
    CASE shape = "zero" -> 0
      [] shape = "flat" -> Unit \div 10
      [] shape = "ramp" -> i * 300
      [] shape = "step" -> IF 2 * i < n THEN Unit \div 10 ELSE 0
      [] shape = "wave" -> (Unit \div 20) + CosTurn(i, n) \div 20

WelchInputs ==
    {[i \in 1..n |-> WelchSample(s, i - 1, n)] : n \in WelchLens, s \in WelchShapes}

InitWelch ==
    /\ call \in {[fn |-> "getWelchLF", signal |-> sig] : sig \in WelchInputs}
    /\ ret = NoCall
    /\ IdlePeaks
    /\ IdleExtract
    /\ IdleEstimate
    /\ IdleTab
    /\ IdleNav
    /\ IdleRec
    /\ IdleSavers

GetWelchLF ==
    /\ call.fn = "getWelchLF"
    /\ ret = NoCall
    /\ ret' = [fn |-> "getWelchLF", val |-> getWelchLF(call.signal, FS)]
    /\ UNCHANGED <<call, peakVars, extractVars, estVars, tabVars, navVars, recVars, saveVars>>

NextWelch == GetWelchLF

SpecWelch == InitWelch /\ [][NextWelch]_vars

\* ------------------------------------------------------------------------
\* Specification SpecAccess: the four accessors of extractFeatures applied
\* to a signal of up to MaxAccess samples, a non-empty increasing list of
\* its indices (what findPeaks returns) and a position from 0 to beyond
\* the end of the list.
\* ------------------------------------------------------------------------
MaxAccess == 4

Accessors == {"safeP", "safeV", "safePi", "safeVi"}

\* signals whose samples all differ
AccessSignals ==
    {[i \in 1..n |-> (7 * i * i - 20 * i) * Unit] : n \in 1..MaxAccess}

IndexLists(n) ==
    {s \in SeqsUpTo(0..(n - 1), n) :
        /\ Len(s) >= 1
        /\ \A i \in 1..(Len(s) - 1) : s[i] < s[i + 1]}

InitAccess ==
    /\ call \in {[fn |-> f, ppg |-> sig, list |-> l, idx |-> k] :
                    f \in Accessors, sig \in AccessSignals,
                    l \in IndexLists(MaxAccess), k \in 0..(MaxAccess + 1)}
    /\ \A i \in 1..Len(call.list) : call.list[i] < Len(call.ppg)
    /\ ret = NoCall
    /\ IdlePeaks
    /\ IdleExtract
    /\ IdleEstimate
    /\ IdleTab
    /\ IdleNav
    /\ IdleRec
    /\ IdleSavers

SafeP ==
    /\ call.fn = "safeP"
    /\ ret = NoCall
    /\ ret' = [fn |-> "safeP", val |-> safeP(call.ppg, call.list, call.idx)]
    /\ UNCHANGED <<call, peakVars, extractVars, estVars, tabVars, navVars, recVars, saveVars>>

SafeV ==
    /\ call.fn = "safeV"
    /\ ret = NoCall
    /\ ret' = [fn |-> "safeV", val |-> safeV(call.ppg, call.list, call.idx)]
    /\ UNCHANGED <<call, peakVars, extractVars, estVars, tabVars, navVars, recVars, saveVars>>

SafePi ==
    /\ call.fn = "safePi"
    /\ ret = NoCall
    /\ ret' = [fn |-> "safePi", val |-> safePi(call.list, call.idx)]
    /\ UNCHANGED <<call, peakVars, extractVars, estVars, tabVars, navVars, recVars, saveVars>>

SafeVi ==
    /\ call.fn = "safeVi"
    /\ ret = NoCall
    /\ ret' = [fn |-> "safeVi", val |-> safeVi(call.list, call.idx)]
    /\ UNCHANGED <<call, peakVars, extractVars, estVars, tabVars, navVars, recVars, saveVars>>

NextAccess == SafeP \/ SafeV \/ SafePi \/ SafeVi

SpecAccess == InitAccess /\ [][NextAccess]_vars

\* ------------------------------------------------------------------------
\* Claims about findPeaks (checked under SpecPeaks)
\* ------------------------------------------------------------------------
KeptSet == {kept[j] : j \in 1..Len(kept)}

CandSet(arr) == {i \in 1..(Len(arr) - 2) : At(arr, i) > At(arr, i - 1) /\ At(arr, i) > At(arr, i + 1)}

\* C5: no two indices returned by findPeaks(x, d), d >= 1, are closer than d.
Thm_C5 ==
    pdone => \A i \in 1..Len(kept) : \A j \in 1..Len(kept) :
                 i # j => Abs(kept[i] - kept[j]) >= distance

\* C5 witness: at least two indices were returned and a nearer candidate was dropped.
Wit_C5 ==
    /\ pdone
    /\ Len(kept) >= 2
    /\ distance >= 2
    /\ CandSet(data) \ KeptSet # {}

\* C6: every returned index is interior and a strict local maximum, the list
\* is strictly ascending, and a sequence without strict local maximum
\* (length < 3, constant, monotone, plateaus only) returns the empty list.
Thm_C6 ==
    pdone =>
        /\ \A j \in 1..Len(kept) :
               /\ 1 <= kept[j] /\ kept[j] <= Len(data) - 2
               /\ At(data, kept[j]) > At(data, kept[j] - 1)
               /\ At(data, kept[j]) > At(data, kept[j] + 1)
        /\ \A j \in 1..(Len(kept) - 1) : kept[j] < kept[j + 1]
        /\ (CandSet(data) = {} => kept = <<>>)

\* C6 witness: a higher, later peak was kept before an earlier one, so the
\* greedy order differs from the returned ascending order.
Wit_C6 ==
    /\ pdone
    /\ Len(kept) >= 2
    /\ Greedy(<<>>, SortByValueDesc(Candidates(data), data), distance) # kept

SuppressedByHigher ==
    \A c \in CandSet(data) \ KeptSet :
        \E k \in KeptSet : Abs(k - c) < distance /\ At(data, k) >= At(data, c)

IsLargest(c) == \A c2 \in CandSet(data) : At(data, c2) <= At(data, c)

ExampleHolds == (data = SpecExample /\ distance = 2) => kept = <<1, 3, 5>>

\* C7 (as stated): every dropped strict local maximum has a returned index
\* closer than d of at least its value, and a strict local maximum whose
\* value is the largest of all candidates is always returned.
Orig_C7 ==
    pdone =>
        /\ SuppressedByHigher
        /\ \A c \in CandSet(data) : IsLargest(c) => c \in KeptSet
        /\ ExampleHolds

\* C7 (amended): every dropped strict local maximum has a returned index
\* closer than d of at least its value, and a strict local maximum whose
\* value is the largest of all candidates is returned unless another
\* candidate of the same value lies at a lower index closer than d.
Thm_C7 ==
    pdone =>
        /\ SuppressedByHigher
        /\ \A c \in CandSet(data) :
               (/\ IsLargest(c)
                /\ ~\E c2 \in CandSet(data) :
                       c2 < c /\ At(data, c2) = At(data, c) /\ Abs(c - c2) < distance)
               => c \in KeptSet
        /\ ExampleHolds

\* C7 witness: two candidates share the largest value, the one of lower
\* index was returned and suppressed the other.
Wit_C7 ==
    /\ pdone
    /\ \E c \in CandSet(data) \ KeptSet : \E k \in KeptSet :
           /\ IsLargest(c) /\ At(data, k) = At(data, c)
           /\ k < c /\ Abs(k - c) < distance

\* ------------------------------------------------------------------------
\* Claims about extractFeatures (checked under SpecExtract)
\* ------------------------------------------------------------------------
Returned == outcome # Pending

SigPeaks == findPeaks(ppg.arr, 10)

SigValleys == findPeaks(Negate(ppg.arr), 10)

IsConstantSeq(arr) == \A i \in 1..Len(arr) : arr[i] = arr[1]

NamedErrors ==
    {"Signal too short", "Signal flatline", "Not enough peaks", "No valleys found"}

\* C1: extractFeatures either fails with one of the four named errors and
\* returns nothing, or returns exactly 18 entries in the order RI, AIx,
\* systolic slope, diastolic slope, PW50, PW75, HR, HRV, AUC, b/a, c/a, d/a,
\* e/a, stiffness, mean, std, baseline trend, LF power.
Thm_C1 ==
    Returned =>
        \/ outcome.kind \in NamedErrors /\ outcome.vec = <<>>
        \/ /\ outcome.kind = "ok"
           /\ Len(outcome.vec) = 18
           /\ outcome.vec[1] = RI(ppg.arr, SigPeaks, SigValleys)
           /\ outcome.vec[2] = AIx(ppg.arr, SigPeaks)
           /\ outcome.vec[3] = sys_slope(ppg.arr, SigPeaks, SigValleys)
           /\ outcome.vec[4] = dia_slope(ppg.arr, SigPeaks, SigValleys)
           /\ outcome.vec[5] = PulseWidth(ppg.arr, SigPeaks, 1, 2)
           /\ outcome.vec[6] = PulseWidth(ppg.arr, SigPeaks, 3, 4)
           /\ outcome.vec[7] = HR(ppg.arr, SigPeaks)
           /\ outcome.vec[8] = HRV(SigPeaks)
           /\ outcome.vec[9] = trapz(ppg.arr)
           /\ SubSeq(outcome.vec, 10, 14) = Sdppg(ppg.arr)
           /\ outcome.vec[15] = _mean(ppg.arr)
           /\ outcome.vec[16] = _std(ppg.arr)
           /\ outcome.vec[17] = baseline_trend(ppg.arr)
           /\ outcome.vec[18] = getWelchLF(ppg.arr, FS)

\* C1 witness: a vector was returned for a signal with five SDPPG landmarks.
Wit_C1 ==
    /\ outcome.kind = "ok"
    /\ Len(outcome.vec) = 18
    /\ outcome.vec[14] # 0

\* C2: a missing sequence and every sequence of length 0..29 fail with the
\* signal-too-short error, whatever the contents.
Thm_C2 ==
    (Returned /\ (ppg.null \/ Len(ppg.arr) < 30)) => outcome = Throw("Signal too short")

\* C2 witness: 29 samples that the flatline check would reject were
\* reported as too short.
Wit_C2 ==
    /\ outcome = Throw("Signal too short")
    /\ ~ppg.null
    /\ Len(ppg.arr) = 29
    /\ _std(ppg.arr) < FlatStd

Thm_C4 ==
    (Returned /\ ~ppg.null /\ Len(ppg.arr) >= 30 /\ _std(ppg.arr) >= 100) =>
        /\ Len(SigPeaks) < 2 => outcome = Throw("Not enough peaks")
        /\ (Len(SigPeaks) >= 2 /\ Len(SigValleys) = 0) => outcome = Throw("No valleys found")

\* C4 witness: a signal with two peaks and a plateau between them was
\* rejected for its missing valley.
Wit_C4 ==
    /\ outcome = Throw("No valleys found")
    /\ Len(SigPeaks) >= 2
    /\ Len(SigValleys) = 0


\* C22 (as stated): on every sequence of 30 or more samples on which
\* extraction succeeds, the heart-rate feature is at most 180 BPM.
Orig_C22 ==
    (Returned /\ outcome.kind = "ok" /\ Len(ppg.arr) >= 30) =>
        At(outcome.vec, 6) <= 180 * Unit


\* samples from (0-based) position lo to hi hold no two equal neighbours
NoPlateau(arr, lo, hi) == \A i \in lo..(hi - 1) : At(arr, i) # At(arr, i + 1)

\* C28: a sequence without equal neighbours on which findPeaks(x, 10)
\* returns 2 or more peaks has at least one valley; when extraction fails
\* for lack of valleys, two equal neighbours lie between the first two
\* peaks.
Thm_C28 ==
    (Returned /\ ~ppg.null) =>
        /\ (NoPlateau(ppg.arr, 0, Len(ppg.arr) - 1) /\ Len(SigPeaks) >= 2) =>
               Len(SigValleys) >= 1
        /\ outcome.kind = "No valleys found" =>
               /\ Len(SigPeaks) >= 2
               /\ ~NoPlateau(ppg.arr, SigPeaks[1], SigPeaks[2])

\* C28 witness: extraction succeeded on a sequence without equal
\* neighbours, with 2 or more peaks and a valley.
Wit_C28 ==
    /\ Returned
    /\ outcome.kind = "ok"
    /\ NoPlateau(ppg.arr, 0, Len(ppg.arr) - 1)
    /\ Len(SigPeaks) >= 2
    /\ Len(SigValleys) >= 1


\* (x[p] - x[v]) / (|p - v| + eps) for sample positions p and v
SlopeBetween(p, v) ==
    FDiv(At(ppg.arr, p) - At(ppg.arr, v), Abs(p - v) * Unit + eps)

\* C29: on every successful extraction peak 0, peak 1 and valley 0 exist,
\* so the accessors return exactly the positions asked for: the systolic
\* slope is taken between the first peak and the first valley, the
\* diastolic slope between the second peak and the first valley.
Thm_C29 ==
    (Returned /\ outcome.kind = "ok") =>
        /\ Len(SigPeaks) >= 2
        /\ Len(SigValleys) >= 1
        /\ outcome.vec[3] = SlopeBetween(SigPeaks[1], SigValleys[1])
        /\ outcome.vec[4] = SlopeBetween(SigPeaks[2], SigValleys[1])

\* C29 witness: extraction succeeded with exactly 2 peaks, the second being
\* the last the accessor can return, and the two slopes differ.
Wit_C29 ==
    /\ Returned
    /\ outcome.kind = "ok"
    /\ Len(SigPeaks) = 2
    /\ Len(SigValleys) >= 1
    /\ outcome.vec[4] = SlopeBetween(SigPeaks[2], SigValleys[1])
    /\ outcome.vec[4] # outcome.vec[3]

\* ------------------------------------------------------------------------
\* Claims about performMathEstimation (checked under SpecEstimate)
\* ------------------------------------------------------------------------
FiniteInputs ==
    /\ \A i \in 1..Len(estIn.features) : IsFinite(estIn.features[i])
    /\ IsFinite(estIn.age) /\ IsFinite(estIn.height) /\ IsFinite(estIn.weight)

IsWhole(x) == IsFinite(x) /\ x % Unit = 0

\* C8: for arbitrary finite features, age, height and weight (height = 0
\* included) performMathEstimation returns three integers with
\* 90 <= sbp <= 180, 60 <= dbp <= 120 and 70 <= glucose <= 250.
Orig_C8 ==
    (estOut.done /\ FiniteInputs) =>
        /\ IsWhole(estOut.sbp) /\ 90 * Unit <= estOut.sbp /\ estOut.sbp <= 180 * Unit
        /\ IsWhole(estOut.dbp) /\ 60 * Unit <= estOut.dbp /\ estOut.dbp <= 120 * Unit
        /\ IsWhole(estOut.glucose) /\ 70 * Unit <= estOut.glucose
        /\ estOut.glucose <= 250 * Unit

\* weight / (height / 100)^2
ClaimedBmi == FDiv(estIn.weight, FMul(FDiv(estIn.height, 100 * Unit), FDiv(estIn.height, 100 * Unit)))

\* C9: for non-zero height the result is the rounded, clamped value of the
\* three formulas with RI, AIx, HR and STIFF exactly the entries at
\* positions 0, 1, 6 and 13 of the vector, also when such an entry is 0.
Orig_C9 ==
    (estOut.done /\ estIn.height # 0) =>
        estOut = [done |-> TRUE] @@
                 Estimate(estIn.age, ClaimedBmi, At(estIn.features, 6),
                          At(estIn.features, 0), At(estIn.features, 1),
                          At(estIn.features, 13))

\* ------------------------------------------------------------------------
\* Claims about the calibration offsets (checked under SpecModelTab)
\* ------------------------------------------------------------------------
\* the offset that the last calibrate stored, zero when none was stored
InForce == IF stored.present THEN stored.val ELSE ZeroOffsets

\* C10: calibrate with reference R after raw output W stores R - W on each
\* channel; every result shown after that, with raw output W', shows
\* W' + (R - W) until the next calibrate, also after the tab was closed and
\* reopened; with nothing stored the offset is zero and the value shown is
\* the raw output.
Orig_C10 ==
    /\ [][stored' # stored =>
            /\ stored'.present
            /\ \A c \in Channels : stored'.val[c] = refs[c] - result.raw[c]]_vars
    /\ [](mounted => offsets = InForce)
    /\ [](result.has => \A c \in Channels : result.pred[c] = result.raw[c] + InForce[c])

\* the runModel call numbered r was awaiting session.run and has resumed
\* in the mounted tab
Resumed(r) ==
    /\ \E i \in 1..Len(inflight) : inflight[i].req = r
    /\ ~\E i \in 1..Len(inflight') : inflight'[i].req = r
    /\ mounted'

\* C19: nothing cancels a runModel call or compares its age with the
\* result shown: whenever a call resumes its result is the one displayed,
\* also when the result displayed before belonged to a call made later.
Thm_C19 ==
    [][\A r \in 1..MaxRuns : Resumed(r) => (result'.has /\ result'.req = r)]_vars

\* C19 witness: two calls were made, the second one completed first, and
\* the result shown is the one of the first call.
Wit_C19 ==
    /\ mounted
    /\ runs = 2
    /\ inflight = <<>>
    /\ result.has
    /\ result.req = 1


\* C23 (as stated): under every interleaving of runModel and calibrate,
\* whenever a result is displayed its calibrated value is its raw value
\* plus the offset the tab holds at that moment, on each channel.
Orig_C23 ==
    (mounted /\ result.has) =>
        \A c \in Channels : result.pred[c] = Plus(result.raw[c], offsets[c])

\* ------------------------------------------------------------------------
\* Claims about the whole page (checked under SpecApp)
\* ------------------------------------------------------------------------
\* C11: the stored calibration offset is changed only by calibrate, and
\* only when an inference result exists; starting or completing an
\* inference, saving or deleting a session, "Delete All Data" and starting
\* or stopping a recording leave it unchanged, and it does not decay.
Thm_C11 ==
    [][/\ stored' # stored =>
            /\ mounted
            /\ result.has
            /\ offsets' = NewOffsets(refs, result)
            /\ stored' = [present |-> TRUE, val |-> JSONRoundTrip(NewOffsets(refs, result))]
       /\ (\/ sessions' # sessions
           \/ recTab'.isRecording # recTab.isRecording
           \/ flight' # flight
           \/ inflight' # inflight
           \/ activeTab' # activeTab) => stored' = stored]_vars

\* C11 witness: an offset was stored, every session was deleted afterwards
\* and a new recording is running, with the offset still stored.
Wit_C11 ==
    /\ stored.present
    /\ stored.val # ZeroOffsets
    /\ sessions = <<>>
    /\ recTab.isRecording

\* the results panel shows Discard and Save & Analyze, both enabled
CanRetryOrDiscard ==
    /\ activeTab = "recording"
    /\ recTab.showResults
    /\ ~recTab.isSaved
    /\ ~recTab.isInferencing
    /\ recTab.pendingSession # NoSession
    /\ recTab.extractedFeatures # NoFeatures

\* C17: when the model inference of save-and-analyze fails, the failure is
\* reported, the extracted features, the pending session and the displayed
\* heuristic estimate stay as they were, no session is written, the
\* in-progress flag is cleared and the user can retry or discard.
Thm_C17 ==
    [][(flight.active /\ ~flight'.active /\ ~recTab'.isSaved) =>
            /\ recTab'.alert = "Failed to run analysis model."
            /\ recTab.extractedFeatures # NoFeatures
            /\ recTab'.extractedFeatures = recTab.extractedFeatures
            /\ recTab'.pendingSession = recTab.pendingSession
            /\ recTab.initialResults.has
            /\ recTab'.initialResults = recTab.initialResults
            /\ recTab'.showResults
            /\ sessions' = sessions
            /\ recTab.isInferencing
            /\ ~recTab'.isInferencing
            /\ CanRetryOrDiscard']_vars

\* C17 witness: an inference failed and the results panel still shows the
\* heuristic estimate of the unsaved pending session.
Wit_C17 ==
    /\ recTab.alert = "Failed to run analysis model."
    /\ recTab.showResults
    /\ recTab.initialResults.has
    /\ recTab.pendingSession # NoSession
    /\ ~recTab.isSaved
    /\ ~recTab.isInferencing
    /\ sessions = <<>>

\* the fields of a session other than the vitals
KeptFields == {"id", "age", "height", "weight", "quality", "features"}

\* C21: the pending session is created only by a stop of the recording
\* whose extraction succeeded, with the features extracted then; the
\* session save-and-analyze appends to the store has the pending
\* session's id, demographics, quality and features, and as vitals the
\* result of the completed inference.
Thm_C21 ==
    [][/\ (recTab'.pendingSession # recTab.pendingSession
              /\ recTab'.pendingSession # NoSession) =>
             /\ recTab.isRecording
             /\ recTab.pendingSession = NoSession
             /\ recTab'.pendingSession.features = recTab'.extractedFeatures
             /\ recTab'.pendingSession.features # NoFeatures
             /\ recTab'.pendingSession.pred = NoPrediction
       /\ (recTab'.isSaved /\ ~recTab.isSaved) =>
             /\ Len(sessions') = Len(sessions) + 1
             /\ SubSeq(sessions', 1, Len(sessions)) = sessions
             /\ \A f \in KeptFields :
                    sessions'[Len(sessions')][f] = recTab.pendingSession[f]
             /\ recTab'.pendingSession = recTab.pendingSession
             /\ recTab'.modelResults.has
             /\ sessions'[Len(sessions')].pred = recTab'.modelResults
             /\ \E outputData \in RawOutputs :
                    recTab'.modelResults = FinalResults(outputData, SavedCalib)]_vars

\* C21 witness: a second session was saved with calibration offsets in
\* force; it is the pending session with the vitals filled in.
Wit_C21 ==
    /\ recTab.isSaved
    /\ Len(sessions) = 2
    /\ stored.present
    /\ stored.val # ZeroOffsets
    /\ sessions[2].id = recTab.pendingSession.id
    /\ sessions[2].features = recTab.pendingSession.features
    /\ sessions[2].pred = recTab.modelResults
    /\ recTab.pendingSession.pred = NoPrediction


\* save-and-analyze has written its session in this step
SavedNow == recTab'.isSaved /\ ~recTab.isSaved

NewId == parseInt(sessions'[Len(sessions')].id)

\* C24 (as stated): the id of each newly saved session is greater than the
\* id of every session saved before it, over the whole life of the store.
Orig_C24 ==
    [][SavedNow => \A n \in everSaved : NewId > n]_vars

\* C24 (amended): the id of each newly saved session is greater than the
\* id of every session the store holds when it is saved.
Thm_C24 ==
    [][SavedNow => \A n \in IdsOf(sessions) : NewId > n]_vars

\* C24 witness: a session was saved into a store that held one with a
\* smaller id.
Wit_C24 ==
    /\ recTab.isSaved
    /\ Len(sessions) = 2
    /\ parseInt(sessions[2].id) > parseInt(sessions[1].id)
    /\ everSaved = IdsOf(sessions)

\* ------------------------------------------------------------------------
\* Claims about generateNextId (checked under SpecNextId)
\* ------------------------------------------------------------------------
StoredIds == {parseInt(sessions[i].id) : i \in 1..Len(sessions)} \ {NaN}

\* C12: generateNextId returns "0001" when the store is empty or holds no
\* numeric id, otherwise the decimal text of the largest stored numeric id
\* plus one, left-padded with zeros; the returned id is a string of exactly
\* 4 decimal digits.
Orig_C12 ==
    ret # NoCall =>
        /\ StoredIds = {} => ret.val = FirstId
        /\ StoredIds # {} =>
              /\ parseInt(ret.val) = (CHOOSE m \in StoredIds : \A k \in StoredIds : k <= m) + 1
              /\ ret.val[1] = "0" \/ toString(parseInt(ret.val)) = ret.val
        /\ Len(ret.val) = IdWidth
        /\ \A i \in 1..Len(ret.val) : IsDigit(ret.val[i])

\* ------------------------------------------------------------------------
\* Claims about preprocessPPG (checked under SpecPreprocess)
\* ------------------------------------------------------------------------
Preprocessed == call.fn = "preprocessPPG" /\ ret # NoCall

RawArr == call.raw.arr

\* C13: when an element of the input is not-a-number the output has the
\* length of the input, every not-a-number element is 0 and every other
\* element is the input element at its position: no bandpass, no Gaussian
\* smoothing and no trimming is applied.
Thm_C13 ==
    (Preprocessed /\ HasNaN(RawArr)) =>
        /\ Len(ret.val) = Len(RawArr)
        /\ \A i \in 1..Len(RawArr) :
              ret.val[i] = IF isNaN(RawArr[i]) THEN 0 ELSE RawArr[i]

\* C13 witness: a recording long enough to be trimmed, with one
\* not-a-number sample among changing samples, was returned sanitized.
Wit_C13 ==
    /\ Preprocessed
    /\ HasNaN(RawArr)
    /\ 2 * Len(RawArr) > 5 * trimSamples
    /\ \E i, j \in 1..Len(RawArr) :
          ~isNaN(RawArr[i]) /\ ~isNaN(RawArr[j]) /\ RawArr[i] # RawArr[j]
    /\ Len(ret.val) = Len(RawArr)

\* C14: the output length is 0 for n = 0, n when the input has a
\* not-a-number element or n <= 225, and n - 180 when it has none and
\* n >= 226; it is never more than n.
Thm_C14 ==
    Preprocessed =>
        LET n == Len(RawArr)
        IN  /\ n = 0 => Len(ret.val) = 0
            /\ (HasNaN(RawArr) \/ n <= 225) => Len(ret.val) = n
            /\ (~HasNaN(RawArr) /\ n >= 226) => Len(ret.val) = n - 180
            /\ Len(ret.val) <= n

\* C14 witness: a recording of at least 226 samples without not-a-number
\* lost 90 samples at each end.
Wit_C14 ==
    /\ Preprocessed
    /\ ~HasNaN(RawArr)
    /\ Len(RawArr) >= 226
    /\ Len(ret.val) = Len(RawArr) - 180


\* extractFeatures rejects what preprocessPPG returned as too short
RejectedAsShort == TooShort([null |-> FALSE, arr |-> ret.val])

\* C30: an input of 30 or more samples gives an output of 30 or more (46
\* or more when samples were trimmed off), an input of fewer than 30 an
\* output of the same length; extractFeatures of the output fails as too
\* short exactly when the input has fewer than 30 samples.
Thm_C30 ==
    Preprocessed =>
        LET n == Len(RawArr)
        IN  /\ n >= 30 => Len(ret.val) >= 30
            /\ Len(ret.val) < n => Len(ret.val) >= 46
            /\ n < 30 => Len(ret.val) = n
            /\ RejectedAsShort <=> (n < 30)

\* C30 witness: the shortest recording that is trimmed gave 46 samples,
\* which extractFeatures does not reject as too short.
Wit_C30 ==
    /\ Preprocessed
    /\ Len(RawArr) = 226
    /\ Len(ret.val) = 46
    /\ ~RejectedAsShort

\* ------------------------------------------------------------------------
\* Claims about gaussianFilter1d (checked under SpecGauss)
\* ------------------------------------------------------------------------
Smoothed == call.fn = "gaussianFilter1d" /\ ret # NoCall

IsConstantData == \A i, j \in 1..Len(call.data) : call.data[i] = call.data[j]

Exported == call.fn = "generateMIMICCSV" /\ ret # NoCall

\* the pieces of str between occurrences of sep
Split(str, sep) ==
    LET at == SortAsc(SetToSeq({i \in 1..Len(str) : str[i] = sep}))
        cut == <<0>> \o at \o <<Len(str) + 1>>
    IN  [k \in 1..(Len(at) + 1) |-> SubSeq(str, cut[k] + 1, cut[k + 1] - 1)]

\* the milliseconds that a text 1970-01-01T00:MM:SS.mmmZ stands for
ReadISO(str) ==
    LET n == Len(IsoPrefix)
    IN  IF Len(str) # n + 10 \/ SubSeq(str, 1, n) # IsoPrefix THEN -1
        ELSE parseInt(SubSeq(str, n + 1, n + 2)) * 60000
             + parseInt(SubSeq(str, n + 4, n + 5)) * 1000
             + parseInt(SubSeq(str, n + 7, n + 9))

\* the number that a decimal text stands for
ReadDecimal(str) ==
    LET parts == Split(str, ".")
        frac == IF Len(parts) = 2 THEN parts[2] ELSE <<>>
    IN  parseInt(parts[1]) * Unit
        + (IF frac = <<>> THEN 0 ELSE parseInt(frac) * (10 ^ (6 - Len(frac))))

\* positions of the raw samples inside the window, ascending
InWindow ==
    SortAsc(SetToSeq({i \in 1..Len(call.session.rawSignal) :
                         /\ call.startTime <= call.session.rawSignal[i].timestamp
                         /\ call.session.rawSignal[i].timestamp <= call.endTime}))

BothResolved == \A c \in Callers : savers[c].pc = "resolved"

\* both calls read the list before either wrote it back
ReadBeforeEitherWrite == savers["a"].read = savers["b"].read

Holds(rec) == \E i \in 1..Len(sessions) : sessions[i] = rec

\* C18: when two saveSession calls both read the stored list before
\* either writes it back, the store ends up with only one of the two new
\* sessions, and both calls resolve like any other.
Thm_C18 ==
    (savers # <<>> /\ BothResolved /\ ReadBeforeEitherWrite) =>
        /\ Holds(savers["a"].rec) # Holds(savers["b"].rec)
        /\ \E c \in Callers : sessions = saveSessionWrite(savers[c].read, savers[c].rec)

\* C18 witness: both calls have resolved after reading the same list of
\* two sessions, and the store holds three sessions, not four.
Wit_C18 ==
    /\ savers # <<>>
    /\ BothResolved
    /\ ReadBeforeEitherWrite
    /\ Len(savers["a"].read) = 2
    /\ Len(sessions) = 3
    /\ Holds(savers["b"].rec)
    /\ ~Holds(savers["a"].rec)

\* ------------------------------------------------------------------------
\* Claims about the accessors of extractFeatures (checked under SpecAccess)
\* ------------------------------------------------------------------------
\* the entry of the list the claim names for position k
EntryFor(list, k) == IF k < Len(list) THEN list[k + 1] ELSE list[Len(list)]

\* C20: for a non-empty list and any position k >= 0 an accessor returns
\* what belongs to entry k of the list, and to the last entry when k is at
\* or beyond the end: the index accessors the entry itself, the value
\* accessors the sample at it; the result is never undefined.
Thm_C20 ==
    ret # NoCall =>
        /\ ret.val # Undefined
        /\ ret.fn \in {"safePi", "safeVi"} => ret.val = EntryFor(call.list, call.idx)
        /\ ret.fn \in {"safeP", "safeV"} =>
               ret.val = call.ppg[EntryFor(call.list, call.idx) + 1]

\* C20 witness: a value accessor was asked for a position beyond the end
\* of a list of two or more entries and returned the sample at the last.
Wit_C20 ==
    /\ ret # NoCall
    /\ ret.fn = "safeP"
    /\ Len(call.list) >= 2
    /\ call.idx > Len(call.list)
    /\ ret.val = call.ppg[call.list[Len(call.list)] + 1]

\* ------------------------------------------------------------------------
\* Claims about the session store (checked under SpecStore)
\* ------------------------------------------------------------------------
\* C25: with one caller and at most one pending session, no two sessions
\* in the store have the same id.
Thm_C25 ==
    \A i, j \in 1..Len(sessions) : sessions[i].id = sessions[j].id => i = j

\* C25 witness: a session was deleted while another was pending, the
\* pending one was saved, and the store holds several sessions.
Wit_C25 ==
    /\ call.fn = "saveSession"
    /\ Len(sessions) >= 2
    /\ \E n \in everSaved : n \notin IdsOf(sessions) /\ n < parseInt(call.arg)
    /\ parseInt(call.arg) \in IdsOf(sessions)

\* the call made in this step
Called(fn) == call'.ops # call.ops /\ call'.fn = fn

\* positions of the sessions whose id is not the one deleted
Others(id) == {i \in 1..Len(sessions) : sessions[i].id # id}

\* C26: the store never holds more than 50 sessions; saveSession appends
\* the session, and into a store of 50 it removes the earliest-saved one
\* and keeps the other 49 in order in front of the new one;
\* deleteSession(id) removes the sessions with that id and keeps the
\* others in their order.
Thm_C26 ==
    /\ [](Len(sessions) <= KeepLast)
    /\ [][/\ Called("saveSession") =>
               /\ sessions'[Len(sessions')].id = call'.arg
               /\ IF Len(sessions) = KeepLast
                  THEN /\ Len(sessions') = KeepLast
                       /\ \A i \in 1..(KeepLast - 1) : sessions'[i] = sessions[i + 1]
                  ELSE /\ Len(sessions') = Len(sessions) + 1
                       /\ \A i \in 1..Len(sessions) : sessions'[i] = sessions[i]
          /\ Called("deleteSession") =>
               /\ Len(sessions') = Cardinality(Others(call'.arg))
               /\ \A i \in Others(call'.arg) :
                      sessions'[Cardinality({j \in Others(call'.arg) : j <= i})] = sessions[i]
          /\ Called("clearAll") => sessions' = <<>>]_vars

\* C26 witness: a session was saved into a store of 50; the store holds 50,
\* the session saved first is gone and the new one is last.
Wit_C26 ==
    /\ call.fn = "saveSession"
    /\ Len(sessions) = KeepLast
    /\ 1 \in everSaved
    /\ 1 \notin IdsOf(sessions)
    /\ parseInt(sessions[1].id) = 2
    /\ sessions[KeepLast].id = call.arg
    /\ parseInt(call.arg) = KeepLast + 1

\* ------------------------------------------------------------------------
\* Claims about getWelchLF (checked under SpecWelch)
\* ------------------------------------------------------------------------
SegLen == Min2(256, Len(call.signal))

\* C27: at 30 Hz the bins within 0.01 to 0.15 Hz are none when the segment
\* is shorter than 200 samples and bin 1 alone from 200 to 256; the LF
\* power is 0 for every sequence shorter than 200 samples and the power
\* of bin 1 for longer ones.
Thm_C27 ==
    ret # NoCall =>
        /\ LFBins(SegLen, FS) = IF SegLen < 200 THEN {} ELSE {1}
        /\ Len(call.signal) < 200 => ret.val = 0
        /\ Len(call.signal) >= 200 => ret.val = avgPSD(call.signal, FS, 1)

\* C27 witness: a sequence of exactly 200 samples has LF power above 0,
\* the power of bin 1.
Wit_C27 ==
    /\ ret # NoCall
    /\ Len(call.signal) = 200
    /\ ret.val > 0
    /\ ret.val = avgPSD(call.signal, FS, 1)

====
